---- MODULE Spec2Model ----
(***************************************************************************)
(* Verification model of cursor_cli_manager.                               *)
(*                                                                         *)
(* Part 1: the bundle installer of github_release.py                       *)
(*         (download_and_install_release_bundle, _install_lock,            *)
(*         _atomic_symlink, _is_within) run by concurrent processes on one *)
(*         install root.                                                   *)
(* Part 2: the TUI background loader of tui.py (_BackgroundLoader) and the *)
(*         render loop's update check and input wait (select_chat).        *)
(***************************************************************************)
EXTENDS Integers, Sequences, FiniteSets, TLC

(***************************************************************************)
(* Bounds                                                                  *)
(***************************************************************************)
MaxPayload == 2

\* the processes that install into the same install root
Procs == {"p1", "p2"}

Tags == {"v1", "v2"}

\* what a bundle archive extracts to, told apart by a number
Payloads == 1..MaxPayload

(***************************************************************************)
(* Paths are tuples of components, as pathlib's Path.parts.                *)
(***************************************************************************)
InstallRoot == <<"/", "r">>

OutsideBin == <<"/", "b">>

BinDirs == { OutsideBin,
             <<"/", "r", "current", "ccm">>,
             <<"/", "r", "versions", "v1">> }

LockDir == InstallRoot \o <<".ccm.lock">>

VersionsDir == InstallRoot \o <<"versions">>

CurrentLink == InstallRoot \o <<"current">>

VersionDir(t) == VersionsDir \o <<t>>

\* target_exe = current / "ccm" / "ccm"
TargetExe == CurrentLink \o <<"ccm", "ccm">>

BinCcm(b) == b \o <<"ccm">>

BinAlias(b) == b \o <<"cursor-cli-manager">>

NoLink == <<>>

NoOwner == "none"

LinkPaths == {CurrentLink} \cup {BinCcm(b) : b \in BinDirs} \cup {BinAlias(b) : b \in BinDirs}

\* wait_s passed by download_and_install_release_bundle to _install_lock
WaitS == 0

\* Python's None
NoneValue == "None"

\* before the first frame there is no layout, before the first click no
\* click target, and while the loop runs no result
NoLayout == [mode |-> "none", view_h |-> 0]

NoTarget == <<>>

NoResult == <<>>

NoErr == [kind |-> "none", path |-> <<>>]

IntegrityKinds == {"checksum_mismatch", "unsafe_member", "self_referential", "bin_inside_root", "lock_busy"}

VARIABLES
    \* ---- filesystem shared by the installing processes ----
    dirs,        \* existing plain directories among InstallRoot, VersionsDir, bin dirs
    lock_dir,    \* NoOwner when <root>/.ccm.lock is absent, else the process that created it
    versions,    \* versions[t]: 0 when versions/<t> is absent, else the payload it holds
    tmp_dir,     \* tmp_dir[p]: 0 or the payload extracted into p's .ccm-extract-* dir
    symlink,     \* symlink[l]: target of the symbolic link at path l, NoLink when absent
    \* ---- one download_and_install_release_bundle call per process ----
    pc, tag, bin_dir, sumcheck, err,
    wrote,       \* wrote[p]: the filesystem operations p's current call has performed
    changed      \* changed[p]: which of versions/<tag>, current, <bin_dir>/ccm now differ
                 \* from what they were before p's current call touched them

VARIABLES
    \* ---- _BackgroundLoader ----
    chats_inflight, preview_snippet_inflight, preview_full_inflight,
    q,           \* the result queue self._q
    threads,     \* every worker thread started so far, in start order: its request,
                 \* where it is in _run ("run", "called", "put", "done"), what the
                 \* callback did, and how many messages it has put on the queue
    \* ---- select_chat: render loop state ----
    ui_pc,       \* "init", "top", "draw", "wait", "getch", "quit"
    chat_cache, chat_error, chat_loading,
    preview_snippet_cache, preview_snippet_error, preview_snippet_loading,
    preview_full_cache, preview_full_error, preview_full_loading,
    update_q, update_status, update_checked_at, update_checking,
    upd_threads, \* every update check thread started so far: where it is in _run
                 \* ("run", "put", "done") and the time it was started at
    now,         \* time.monotonic(), in seconds
    timeout      \* the value last passed to stdscr.timeout()

VARIABLES
    \* ---- select_chat: selection, focus, filters and what a frame shows ----
    focus,            \* "workspaces", "chats", "preview"
    last_list_focus,  \* "workspaces", "chats"
    input_mode,       \* NoneValue, "ws", "chat"
    ws_filter, chat_filter,
    ws_state, chat_state,  \* ListState: [selected, scroll]
    layout,           \* the layout of the last frame: its mode and the list height
    cur_ws,           \* ws, the workspace the last frame was drawn for
    last_click_target,
    update_right,     \* the right-hand status bar text of the last frame
    result            \* how select_chat ended, NoResult while it runs

VARIABLES
    \* ---- opening.py: module globals and the threads that use them ----
    PROBE_LOCK,                 \* the thread inside `with _PROBE_LOCK`, NoOwner when free
    PROBE_STARTED,              \* _PROBE_STARTED
    PROBED_CURSOR_AGENT_FLAGS,  \* _PROBED_CURSOR_AGENT_FLAGS: NoneValue or a list of flags
    FORCE_SUPPORTED,            \* _FORCE_SUPPORTED: NoneValue, TRUE or FALSE
    probe_pc,    \* probe_pc[c]: where thread c is in start_cursor_agent_flag_probe
    probe_seen,  \* probe_seen[c]: the value of _PROBE_STARTED thread c read at line 45
    probe_calls, \* probe_calls[c]: calls of start_cursor_agent_flag_probe made by c
    probes,      \* every probe thread started so far: where it is in _run, and the
                 \* flag list it stored
    \* ---- cli.py: one cmd_tui call ----
    cli_pc,      \* where cmd_tui is
    cli_rc,      \* its exit status, NoneValue until it returns
    tui_runs,    \* every _run_tui invocation so far: how it ended, and how the
                 \* upgrade it asked for went
    selection,   \* what _run_tui returned
    cmd,         \* the command line built by exec_new_chat / exec_resume_chat
    execs,       \* every command os.execvp was called with
    agent_reply  \* what the launched cursor-agent did with the command

VARIABLES
    \* ---- one call of a function that has no state of its own ----
    args,        \* the function called and its arguments
    ret          \* <<>> until the call returns, then <<the value returned>>

fsVars == <<dirs, lock_dir, versions, tmp_dir, symlink>>

callVars == <<pc, tag, bin_dir, sumcheck, err, wrote, changed>>

installVars == <<fsVars, callVars>>

loaderVars == <<chats_inflight, preview_snippet_inflight, preview_full_inflight, q, threads>>

cacheVars == <<chat_cache, chat_error, chat_loading,
               preview_snippet_cache, preview_snippet_error, preview_snippet_loading,
               preview_full_cache, preview_full_error, preview_full_loading>>

updateVars == <<update_q, update_status, update_checked_at, update_checking, upd_threads>>

loopVars == <<ui_pc, cacheVars, updateVars, now, timeout>>

navVars == <<focus, last_list_focus, input_mode, ws_filter, chat_filter, ws_state, chat_state,
             layout, cur_ws, last_click_target, update_right, result>>

tuiVars == <<loaderVars, loopVars, navVars>>

probeVars == <<PROBE_LOCK, PROBE_STARTED, PROBED_CURSOR_AGENT_FLAGS, probe_pc, probe_seen,
               probe_calls, probes>>

cliVars == <<cli_pc, cli_rc, tui_runs, selection, cmd, execs, agent_reply, FORCE_SUPPORTED>>

openVars == <<probeVars, cliVars>>

pureVars == <<args, ret>>

vars == <<installVars, tuiVars, openVars, pureVars>>

(***************************************************************************)
(* Pure helpers of github_release.py                                       *)
(***************************************************************************)
IsAbsolute(path) == Len(path) > 0 /\ path[1] = "/"

Prefix(path, n) == SubSeq(path, 1, n)

Rest(path, n) == SubSeq(path, n + 1, Len(path))

MinOf(S) == CHOOSE n \in S : \A m \in S : n <= m

\* Path.resolve(strict=False): substitute symlinks front to back; a loop
\* makes resolve() raise and _resolve_for_compare fall back to p.absolute().
RECURSIVE ResolveFrom(_, _, _, _)
ResolveFrom(sl, orig, path, fuel) ==
    IF fuel = 0 THEN orig
    ELSE LET hits == {n \in 1..Len(path) : Prefix(path, n) \in DOMAIN sl /\ sl[Prefix(path, n)] # NoLink}
         IN  IF hits = {} THEN path
             ELSE LET n == MinOf(hits)
                      tgt == sl[Prefix(path, n)]
                      base == IF IsAbsolute(tgt) THEN tgt ELSE Prefix(path, n - 1) \o tgt
                  IN  ResolveFrom(sl, orig, base \o Rest(path, n), fuel - 1)

resolve_for_compare(sl, p) == ResolveFrom(sl, p, p, 4)

is_within(sl, child, parent) ==
    LET c == resolve_for_compare(sl, child)
        pp == resolve_for_compare(sl, parent)
    IN  Len(c) >= Len(pp) /\ Prefix(c, Len(pp)) = pp

\* the guard at the head of _atomic_symlink
SelfReferential(sl, target, link) == resolve_for_compare(sl, target) = resolve_for_compare(sl, link)

\* variant: only the versions subtree is refused
BinInsideVersionsOnly(sl, b) ==
    is_within(sl, b, resolve_for_compare(sl, InstallRoot) \o <<"versions">>)

BinInsideRoot(sl, b) ==
    \/ is_within(sl, b, resolve_for_compare(sl, InstallRoot) \o <<"current">>)
    \/ is_within(sl, b, resolve_for_compare(sl, InstallRoot) \o <<"versions">>)

(***************************************************************************)
(* Initial state: nothing installed, no call running.                      *)
(***************************************************************************)
InitInstall ==
    /\ dirs = {}
    /\ lock_dir = NoOwner
    /\ versions = [t \in Tags |-> 0]
    /\ tmp_dir = [p \in Procs |-> 0]
    /\ symlink = [l \in LinkPaths |-> NoLink]
    /\ pc = [p \in Procs |-> "idle"]
    /\ tag = [p \in Procs |-> "v1"]
    /\ bin_dir = [p \in Procs |-> OutsideBin]
    /\ sumcheck = [p \in Procs |-> "none"]
    /\ err = [p \in Procs |-> NoErr]
    /\ wrote = [p \in Procs |-> {}]
    /\ changed = [p \in Procs |-> {}]

Raise(p, kind, path, next) ==
    /\ err' = [err EXCEPT ![p] = [kind |-> kind, path |-> path]]
    /\ pc' = [pc EXCEPT ![p] = next]

Goto(p, next) == pc' = [pc EXCEPT ![p] = next] /\ UNCHANGED err

Wrote(p, what) == wrote' = [wrote EXCEPT ![p] = @ \cup what]

Changed(p, what, old, new) == changed' = [changed EXCEPT ![p] = IF old = new THEN @ ELSE @ \cup {what}]

\* variant: the archive is installed without comparing its digest
BeginUnverified(p, t, b, asset_ok, sum) ==
    /\ pc[p] = "idle"
    /\ tag' = [tag EXCEPT ![p] = t]
    /\ bin_dir' = [bin_dir EXCEPT ![p] = b]
    /\ sumcheck' = [sumcheck EXCEPT ![p] = IF asset_ok THEN sum ELSE "none"]
    /\ IF ~asset_ok THEN Raise(p, "unsupported_asset", <<>>, "raised")
       ELSE Goto(p, "lock")
    /\ UNCHANGED <<fsVars, wrote, changed>>
    /\ UNCHANGED <<tuiVars, openVars, pureVars>>

(***************************************************************************)
(* download_and_install_release_bundle, lines 626-649: suffix check,       *)
(* download, checksum verification.  asset_ok: asset_name ends in .tar.gz. *)
(* sum: "match" / "mismatch" - checksums.txt has an entry for the asset    *)
(* that equals / differs from the archive's SHA-256; "absent" - no entry   *)
(* or checksums.txt could not be fetched (verify_checksums is True in      *)
(* every caller, update.py lines 383 and 394).                             *)
(***************************************************************************)
Begin(p, t, b, asset_ok, sum) ==
    /\ pc[p] = "idle"
    /\ tag' = [tag EXCEPT ![p] = t]
    /\ bin_dir' = [bin_dir EXCEPT ![p] = b]
    /\ sumcheck' = [sumcheck EXCEPT ![p] = IF asset_ok THEN sum ELSE "none"]
    /\ IF ~asset_ok THEN Raise(p, "unsupported_asset", <<>>, "raised")
       ELSE IF sum = "mismatch" THEN Raise(p, "checksum_mismatch", <<>>, "raised")
       ELSE Goto(p, "lock")
    /\ UNCHANGED <<fsVars, wrote, changed>>
    /\ UNCHANGED <<tuiVars, openVars, pureVars>>

\* variant: the lock directory is made with exist_ok, so mkdir never fails
AcquireLockExistOk(p) ==
    /\ pc[p] = "lock"
    /\ dirs' = dirs \cup {InstallRoot}
    /\ lock_dir' = p
    /\ Goto(p, "check_bin")
    /\ Wrote(p, (IF InstallRoot \in dirs THEN {} ELSE {"root"}) \cup {"lock"})
    /\ UNCHANGED <<versions, tmp_dir, symlink, tag, bin_dir, sumcheck, changed>>
    /\ UNCHANGED <<tuiVars, openVars, pureVars>>

\* variant: a contended lock is treated as stale and removed before raising
AcquireLockBreakStale(p) ==
    /\ pc[p] = "lock"
    /\ dirs' = dirs \cup {InstallRoot}
    /\ IF lock_dir = NoOwner
       THEN /\ lock_dir' = p
            /\ Goto(p, "check_bin")
            /\ Wrote(p, (IF InstallRoot \in dirs THEN {} ELSE {"root"}) \cup {"lock"})
       ELSE /\ Raise(p, "lock_busy", LockDir, "raised")
            /\ Wrote(p, IF InstallRoot \in dirs THEN {} ELSE {"root"})
            /\ lock_dir' = NoOwner
    /\ UNCHANGED <<versions, tmp_dir, symlink, tag, bin_dir, sumcheck, changed>>
    /\ UNCHANGED <<tuiVars, openVars, pureVars>>

(***************************************************************************)
(* _install_lock, lines 151-172: root.mkdir(exist_ok), then the atomic     *)
(* lock_dir.mkdir(); FileExistsError past the deadline raises.             *)
(***************************************************************************)
AcquireLock(p) ==
    /\ pc[p] = "lock"
    /\ dirs' = dirs \cup {InstallRoot}
    /\ IF lock_dir = NoOwner
       THEN /\ lock_dir' = p
            /\ Goto(p, "check_bin")
            /\ Wrote(p, (IF InstallRoot \in dirs THEN {} ELSE {"root"}) \cup {"lock"})
       ELSE IF WaitS = 0
       THEN /\ Raise(p, "lock_busy", LockDir, "raised")
            /\ Wrote(p, IF InstallRoot \in dirs THEN {} ELSE {"root"})
            /\ UNCHANGED lock_dir
       ELSE \* time.sleep(0.1) and retry
            /\ UNCHANGED <<lock_dir, pc, err, wrote>>
    /\ UNCHANGED <<versions, tmp_dir, symlink, tag, bin_dir, sumcheck, changed>>
    /\ UNCHANGED <<tuiVars, openVars, pureVars>>

(***************************************************************************)
(* lines 654-659: refuse a bin dir inside <root>/current or <root>/versions *)
(***************************************************************************)
CheckBinDir(p) ==
    /\ pc[p] = "check_bin"
    /\ IF BinInsideRoot(symlink, bin_dir[p])
       THEN Raise(p, "bin_inside_root", bin_dir[p], "unlock")
       ELSE Goto(p, "mkdtemp")
    /\ UNCHANGED <<fsVars, tag, bin_dir, sumcheck, wrote, changed>>
    /\ UNCHANGED <<tuiVars, openVars, pureVars>>

(***************************************************************************)
(* lines 661-664: versions_dir.mkdir(), tempfile.mkdtemp(dir=versions_dir)  *)
(***************************************************************************)
MakeTmpDir(p) ==
    /\ pc[p] = "mkdtemp"
    /\ dirs' = dirs \cup {VersionsDir}
    /\ Wrote(p, (IF VersionsDir \in dirs THEN {} ELSE {"versions_dir"}) \cup {"tmp"})
    /\ tmp_dir' = [tmp_dir EXCEPT ![p] = 0]
    /\ Goto(p, "extract")
    /\ UNCHANGED <<lock_dir, versions, symlink, tag, bin_dir, sumcheck, changed>>
    /\ UNCHANGED <<tuiVars, openVars, pureVars>>

(***************************************************************************)
(* lines 666-674: _safe_extract_tar_gz validates every member before       *)
(* extracting; then the bundle must contain ccm/ccm.                       *)
(* archive: "good", "unsafe" (absolute path or .. in a member or link      *)
(* target), "noexe" (no ccm/ccm inside).                                   *)
(***************************************************************************)
Extract(p, archive, payload) ==
    /\ pc[p] = "extract"
    /\ CASE archive = "unsafe" ->
              /\ Raise(p, "unsafe_member", <<>>, "cleanup")
              /\ UNCHANGED tmp_dir
         [] archive = "noexe" ->
              /\ Raise(p, "invalid_bundle", <<>>, "cleanup")
              /\ tmp_dir' = [tmp_dir EXCEPT ![p] = payload]
         [] OTHER ->
              /\ Goto(p, "replace")
              /\ tmp_dir' = [tmp_dir EXCEPT ![p] = payload]
    /\ UNCHANGED <<dirs, lock_dir, versions, symlink, tag, bin_dir, sumcheck, wrote, changed>>
    /\ UNCHANGED <<tuiVars, openVars, pureVars>>

(***************************************************************************)
(* lines 676-683: rmtree an existing versions/<tag>, os.replace(tmp_dir).  *)
(* os_ok = FALSE: the rename fails with an OSError.                        *)
(***************************************************************************)
ReplaceVersion(p, os_ok) ==
    /\ pc[p] = "replace"
    /\ IF os_ok
       THEN /\ versions' = [versions EXCEPT ![tag[p]] = tmp_dir[p]]
            /\ tmp_dir' = [tmp_dir EXCEPT ![p] = 0]
            /\ Wrote(p, {"version"})
            /\ Changed(p, "version", versions[tag[p]], tmp_dir[p])
            /\ Goto(p, "link_current")
       ELSE /\ Raise(p, "oserror", <<>>, "cleanup")
            /\ UNCHANGED <<versions, tmp_dir, wrote, changed>>
    /\ UNCHANGED <<dirs, lock_dir, symlink, tag, bin_dir, sumcheck>>
    /\ UNCHANGED <<tuiVars, openVars, pureVars>>

(***************************************************************************)
(* _atomic_symlink, lines 497-512                                          *)
(***************************************************************************)
atomic_symlink(p, target, link, what, next) ==
    IF SelfReferential(symlink, target, link)
    THEN /\ Raise(p, "self_referential", link, "cleanup")
         /\ UNCHANGED <<symlink, wrote, changed>>
    ELSE /\ symlink' = [symlink EXCEPT ![link] = target]
         /\ Wrote(p, {what})
         /\ Changed(p, what, symlink[link], target)
         /\ Goto(p, next)

\* lines 685-686
LinkCurrent(p) ==
    /\ pc[p] = "link_current"
    /\ atomic_symlink(p, VersionDir(tag[p]), CurrentLink, "current", "link_bin")
    /\ UNCHANGED <<dirs, lock_dir, versions, tmp_dir, tag, bin_dir, sumcheck>>
    /\ UNCHANGED <<tuiVars, openVars, pureVars>>

\* lines 688-690
LinkBin(p) ==
    /\ pc[p] = "link_bin"
    /\ dirs' = dirs \cup {bin_dir[p]}
    /\ atomic_symlink(p, TargetExe, BinCcm(bin_dir[p]), "bin_ccm", "alias")
    /\ UNCHANGED <<lock_dir, versions, tmp_dir, tag, bin_dir, sumcheck>>
    /\ UNCHANGED <<tuiVars, openVars, pureVars>>

\* lines 692-708: unlink the alias, os.symlink("ccm", alias), return
LinkAlias(p) ==
    /\ pc[p] = "alias"
    /\ symlink' = [symlink EXCEPT ![BinAlias(bin_dir[p])] = <<"ccm">>]
    /\ Wrote(p, {"alias"})
    /\ Goto(p, "cleanup")
    /\ UNCHANGED <<dirs, lock_dir, versions, tmp_dir, tag, bin_dir, sumcheck, changed>>
    /\ UNCHANGED <<tuiVars, openVars, pureVars>>

\* lines 709-714: finally: rmtree(tmp_dir) if it still exists
Cleanup(p) ==
    /\ pc[p] = "cleanup"
    /\ tmp_dir' = [tmp_dir EXCEPT ![p] = 0]
    /\ Goto(p, "unlock")
    /\ UNCHANGED <<dirs, lock_dir, versions, symlink, tag, bin_dir, sumcheck, wrote, changed>>
    /\ UNCHANGED <<tuiVars, openVars, pureVars>>

\* variant: the lock is removed after the body instead of in a finally block
ReleaseLockOnSuccessOnly(p) ==
    /\ pc[p] = "unlock"
    /\ lock_dir' = IF err[p] = NoErr THEN NoOwner ELSE lock_dir
    /\ Goto(p, IF err[p] = NoErr THEN "returned" ELSE "raised")
    /\ UNCHANGED <<dirs, versions, tmp_dir, symlink, tag, bin_dir, sumcheck, wrote, changed>>
    /\ UNCHANGED <<tuiVars, openVars, pureVars>>

(***************************************************************************)
(* _install_lock, lines 174-180: finally: shutil.rmtree(lock_dir)          *)
(***************************************************************************)
ReleaseLock(p) ==
    /\ pc[p] = "unlock"
    /\ lock_dir' = NoOwner
    /\ Goto(p, IF err[p] = NoErr THEN "returned" ELSE "raised")
    /\ UNCHANGED <<dirs, versions, tmp_dir, symlink, tag, bin_dir, sumcheck, wrote, changed>>
    /\ UNCHANGED <<tuiVars, openVars, pureVars>>

\* the caller has seen the result; the process may call again
Finish(p) ==
    /\ pc[p] \in {"returned", "raised"}
    /\ pc' = [pc EXCEPT ![p] = "idle"]
    /\ tag' = [tag EXCEPT ![p] = "v1"]
    /\ bin_dir' = [bin_dir EXCEPT ![p] = OutsideBin]
    /\ sumcheck' = [sumcheck EXCEPT ![p] = "none"]
    /\ err' = [err EXCEPT ![p] = NoErr]
    /\ wrote' = [wrote EXCEPT ![p] = {}]
    /\ changed' = [changed EXCEPT ![p] = {}]
    /\ UNCHANGED fsVars
    /\ UNCHANGED <<tuiVars, openVars, pureVars>>

NextInstall ==
    \/ \E p \in Procs, t \in Tags, b \in BinDirs, a \in BOOLEAN,
          s \in {"match", "mismatch", "absent"} : Begin(p, t, b, a, s)
    \/ \E p \in Procs : AcquireLock(p)
    \/ \E p \in Procs : CheckBinDir(p)
    \/ \E p \in Procs : MakeTmpDir(p)
    \/ \E p \in Procs, a \in {"good", "unsafe", "noexe"}, c \in Payloads : Extract(p, a, c)
    \/ \E p \in Procs, ok \in BOOLEAN : ReplaceVersion(p, ok)
    \/ \E p \in Procs : LinkCurrent(p)
    \/ \E p \in Procs : LinkBin(p)
    \/ \E p \in Procs : LinkAlias(p)
    \/ \E p \in Procs : Cleanup(p)
    \/ \E p \in Procs : ReleaseLock(p)
    \/ \E p \in Procs : Finish(p)

(***************************************************************************)
(* Properties of the installer                                             *)
(***************************************************************************)
\* between the successful lock_dir.mkdir() and the rmtree(lock_dir)
InCritical(p) ==
    pc[p] \in {"check_bin", "mkdtemp", "extract", "replace", "link_current",
               "link_bin", "alias", "cleanup", "unlock"}

Done(p) == pc[p] \in {"returned", "raised"}

Inside(p) == BinInsideRoot(symlink, bin_dir[p])

\* C1: at most one process at a time is between creating .ccm.lock and
\* removing it, and that process is the one that created the lock directory.
C1_MutualExclusion ==
    /\ \A p, o \in Procs : (InCritical(p) /\ InCritical(o)) => p = o
    /\ \A p \in Procs : InCritical(p) => lock_dir = p

\* one process is renaming into versions/ while the other is about to mkdir the lock
C1_Witness ==
    \E p, o \in Procs : p # o /\ pc[p] = "replace" /\ pc[o] = "lock"

\* C4 (as claimed): a call that raised an integrity violation has left
\* versions/<tag>, current and <bin_dir>/ccm as they were.
C4_NoPartialInstall ==
    \A p \in Procs :
        (pc[p] = "raised" /\ err[p].kind \in IntegrityKinds) => changed[p] = {}

\* C5 (as claimed): an install with a matching checksum into a bin dir outside
\* the root, whose archive is a valid bundle and which got the lock, finishes
\* without an error, with current, <bin_dir>/ccm and the alias resolving into
\* versions/<tag>.
C5_Installed(p) ==
    /\ resolve_for_compare(symlink, CurrentLink) = VersionDir(tag[p])
    /\ versions[tag[p]] # 0
    /\ resolve_for_compare(symlink, BinCcm(bin_dir[p])) = VersionDir(tag[p]) \o <<"ccm", "ccm">>
    /\ resolve_for_compare(symlink, BinAlias(bin_dir[p])) = VersionDir(tag[p]) \o <<"ccm", "ccm">>

C5_InstallSucceeds ==
    \A p \in Procs :
        ( /\ pc[p] \in {"unlock", "returned", "raised"}
          /\ sumcheck[p] = "match"
          /\ ~Inside(p)
          /\ err[p].kind \notin {"lock_busy", "unsafe_member", "invalid_bundle", "oserror"} )
        => (err[p] = NoErr /\ (pc[p] = "unlock" => C5_Installed(p)))

\* C6: a checksum mismatch makes the call raise at once, having performed no
\* filesystem operation at all.
C6_MismatchTouchesNothing ==
    \A p \in Procs :
        sumcheck[p] = "mismatch" =>
            /\ pc[p] = "raised"
            /\ err[p].kind = "checksum_mismatch"
            /\ wrote[p] = {}
            /\ changed[p] = {}

\* a mismatching archive was refused while an earlier install is in place
C6_Witness ==
    \E p \in Procs :
        /\ sumcheck[p] = "mismatch" /\ pc[p] = "raised"
        /\ symlink[CurrentLink] # NoLink

\* C7: with wait 0, a caller that finds .ccm.lock present leaves
\* _install_lock in that very step with the 'already in progress' error
\* naming the lock path, and the step changes nothing on disk: the lock
\* directory, versions/, current and the bin dir stay as they are.
C7_LockBusyFailsAtOnce ==
    [][ \A p \in Procs :
          (pc[p] = "lock" /\ lock_dir # NoOwner /\ pc'[p] # "lock") =>
              /\ WaitS = 0
              /\ pc'[p] = "raised"
              /\ err'[p] = [kind |-> "lock_busy", path |-> LockDir]
              /\ wrote'[p] = {} /\ changed'[p] = {}
              /\ UNCHANGED fsVars ]_vars

C7_Witness ==
    \E p \in Procs :
        /\ pc[p] = "raised" /\ err[p].kind = "lock_busy" /\ err[p].path = LockDir
        /\ lock_dir \notin {NoOwner, p}

\* C8: once a call that had acquired the lock has returned or raised, the
\* lock directory it created is gone.
C8_LockReleasedOnExit ==
    \A p \in Procs : (Done(p) /\ "lock" \in wrote[p]) => lock_dir # p

\* a call that failed under the lock, after the version directory was renamed
C8_Witness ==
    \E p \in Procs :
        pc[p] = "raised" /\ {"lock", "version"} \subseteq wrote[p] /\ lock_dir = NoOwner

\* C9: a call whose bin dir lies in or below <root>/current or
\* <root>/versions never gets past the check: it creates no temp dir, renames
\* no version directory and writes no symlink, and the error it ends with
\* under the lock is 'refusing to install'.
C9_RefusesBinInsideRoot ==
    \A p \in Procs :
        Inside(p) =>
            /\ pc[p] \in {"lock", "check_bin", "unlock", "raised"}
            /\ wrote[p] \subseteq {"root", "lock"}
            /\ changed[p] = {}
            /\ pc[p] = "unlock" => err[p].kind = "bin_inside_root"
            /\ (pc[p] = "raised" /\ "lock" \in wrote[p]) => err[p].kind = "bin_inside_root"

\* a refusal on a root that has no current link yet, so that only the
\* unresolved path tells that the bin dir is inside
C9_Witness ==
    \E p \in Procs :
        /\ pc[p] = "raised" /\ err[p].kind = "bin_inside_root"
        /\ bin_dir[p] = CurrentLink \o <<"ccm">>
        /\ symlink[CurrentLink] = NoLink

(***************************************************************************)
(* Part 2: tui.py, _BackgroundLoader and the render loop of select_chat    *)
(***************************************************************************)
MaxRequests == 3

MaxTicks == 2

Workspaces == {"w1", "w2"}

ChatIds == {"c1"}

\* snippet_max_messages = max(8, preview_inner_h)
SnippetSizes == {8}

\* what load_chats returns / what the preview loaders return
ChatLists == {<<"c1">>}

Previews == {<<"assistant", "hi">>}

NonePreview == <<"None", "None">>

\* str(e) of what a loading callback raises
Errors == {"boom"}

PollMs == 80

Block == -1

DrainMax == 50

UpdateIntervalS == 300

TickS == 150

StartNow == 300

\* UpdateStatus as far as the render loop reads it
UpToDate == [supported |-> TRUE, update_available |-> FALSE, error |-> "None"]

Available == [supported |-> TRUE, update_available |-> TRUE, error |-> "None"]

CheckFailed == [supported |-> FALSE, update_available |-> FALSE, error |-> "update check failed"]

NoStatus == [supported |-> FALSE, update_available |-> FALSE, error |-> "no status"]

\* Python dict operations
DictPut(d, k, v) == [x \in (DOMAIN d) \cup {k} |-> IF x = k THEN v ELSE d[x]]

DictPop(d, k) == [x \in (DOMAIN d) \ {k} |-> d[x]]

EmptyDict == [x \in {} |-> 0]

InitTui ==
    /\ chats_inflight = {}
    /\ preview_snippet_inflight = {}
    /\ preview_full_inflight = {}
    /\ q = <<>>
    /\ threads = <<>>
    /\ ui_pc = "init"
    /\ chat_cache = EmptyDict /\ chat_error = EmptyDict /\ chat_loading = {}
    /\ preview_snippet_cache = EmptyDict /\ preview_snippet_error = EmptyDict
    /\ preview_snippet_loading = {}
    /\ preview_full_cache = EmptyDict /\ preview_full_error = EmptyDict
    /\ preview_full_loading = {}
    /\ update_q = <<>>
    /\ update_status = NoStatus
    /\ update_checked_at = 0
    /\ update_checking = FALSE
    /\ upd_threads = <<>>
    /\ now = StartNow
    /\ timeout = Block
    /\ focus = "workspaces" /\ last_list_focus = "workspaces"
    /\ input_mode = NoneValue
    /\ ws_filter = <<>> /\ chat_filter = <<>>
    /\ ws_state = [selected |-> 0, scroll |-> 0]
    /\ chat_state = [selected |-> 0, scroll |-> 0]
    /\ layout = NoLayout
    /\ cur_ws = NoneValue
    /\ last_click_target = NoTarget
    /\ update_right = NoneValue
    /\ result = NoResult

(***************************************************************************)
(* _BackgroundLoader, lines 333-428                                        *)
(***************************************************************************)
\* variant: has_pending looks at the in-flight sets and not at the queue
has_pending_ignores_queue ==
    chats_inflight # {} \/ preview_snippet_inflight # {} \/ preview_full_inflight # {}

\* has_pending, lines 358-362
has_pending ==
    \/ chats_inflight # {} \/ preview_snippet_inflight # {} \/ preview_full_inflight # {}
    \/ q # <<>>

\* threading.Thread(target=_run, daemon=True).start()
NewThread(cat, key) == [cat |-> cat, key |-> key, st |-> "run", out |-> <<>>, nput |-> 0]

\* the loader's lock-guarded sets and its threads, as one value
LoaderState ==
    [chats |-> chats_inflight, snippet |-> preview_snippet_inflight,
     full |-> preview_full_inflight, threads |-> threads]

SetLoader(L) ==
    /\ chats_inflight' = L.chats
    /\ preview_snippet_inflight' = L.snippet
    /\ preview_full_inflight' = L.full
    /\ threads' = L.threads

\* variant: no check of the in-flight set before starting the thread
ensure_chats_no_dedupe(L, ws) ==
    [L EXCEPT !.chats = @ \cup {ws}, !.threads = Append(@, NewThread("chats", ws))]

\* ensure_chats, lines 364-381: check and add under the lock, then start _run
ensure_chats(L, ws) ==
    IF ws \in L.chats THEN L
    ELSE [L EXCEPT !.chats = @ \cup {ws}, !.threads = Append(@, NewThread("chats", ws))]

\* ensure_preview_snippet, lines 383-400
ensure_preview_snippet(L, chat, max_messages) ==
    LET key == <<chat, max_messages>>
    IN  IF key \in L.snippet THEN L
        ELSE [L EXCEPT !.snippet = @ \cup {key},
                       !.threads = Append(@, NewThread("preview_snippet", key))]

\* ensure_preview_full, lines 402-419
ensure_preview_full(L, chat) ==
    IF chat \in L.full THEN L
    ELSE [L EXCEPT !.full = @ \cup {chat}, !.threads = Append(@, NewThread("preview_full", chat))]

\* the loading callback of thread i returns a value or raises an Exception
CallbackReturns(i, val) ==
    /\ i \in 1..Len(threads) /\ threads[i].st = "run"
    /\ val \in (IF threads[i].cat = "chats" THEN ChatLists ELSE Previews)
    /\ threads' = [threads EXCEPT ![i].st = "called", ![i].out = <<"ret", val>>]
    /\ UNCHANGED <<chats_inflight, preview_snippet_inflight, preview_full_inflight, q>>
    /\ UNCHANGED <<installVars, openVars, pureVars, navVars, loopVars>>

CallbackRaises(i, e) ==
    /\ i \in 1..Len(threads) /\ threads[i].st = "run"
    /\ threads' = [threads EXCEPT ![i].st = "called", ![i].out = <<"exc", e>>]
    /\ UNCHANGED <<chats_inflight, preview_snippet_inflight, preview_full_inflight, q>>
    /\ UNCHANGED <<installVars, openVars, pureVars, navVars, loopVars>>

\* the tuple _run puts on the queue, lines 374/376, 393/395, 412/414
ResultMessage(t) ==
    IF t.out[1] = "ret"
    THEN CASE t.cat = "chats" -> <<"chats_ok", t.key, t.out[2]>>
           [] t.cat = "preview_snippet" -> <<"preview_snippet_ok", t.key[1], t.key[2], t.out[2]>>
           [] OTHER -> <<"preview_full_ok", t.key, t.out[2]>>
    ELSE CASE t.cat = "chats" -> <<"chats_err", t.key, t.out[2]>>
           [] t.cat = "preview_snippet" -> <<"preview_snippet_err", t.key[1], t.key[2], t.out[2]>>
           [] OTHER -> <<"preview_full_err", t.key, t.out[2]>>

\* variant: _run without the except clause, a raised error ends the thread
PutOfNoExcept(t) == IF t.out[1] = "ret" THEN <<ResultMessage(t)>> ELSE <<>>

\* what _run adds to the queue once the callback is over
PutOf(t) == <<ResultMessage(t)>>

\* self._q.put(...) in the try or the except branch of _run
PutResult(i) ==
    /\ i \in 1..Len(threads) /\ threads[i].st = "called"
    /\ q' = q \o PutOf(threads[i])
    /\ threads' = [threads EXCEPT ![i].st = "put", ![i].out = <<>>, ![i].nput = Len(PutOf(threads[i]))]
    /\ UNCHANGED <<chats_inflight, preview_snippet_inflight, preview_full_inflight>>
    /\ UNCHANGED <<installVars, openVars, pureVars, navVars, loopVars>>

\* finally: with self._lock: self._*_inflight.discard(key); the thread ends
FinallyDiscard(i) ==
    /\ i \in 1..Len(threads) /\ threads[i].st = "put"
    /\ LET t == threads[i]
       IN  /\ chats_inflight' = IF t.cat = "chats" THEN chats_inflight \ {t.key} ELSE chats_inflight
           /\ preview_snippet_inflight' =
                  IF t.cat = "preview_snippet" THEN preview_snippet_inflight \ {t.key}
                  ELSE preview_snippet_inflight
           /\ preview_full_inflight' =
                  IF t.cat = "preview_full" THEN preview_full_inflight \ {t.key}
                  ELSE preview_full_inflight
    /\ threads' = [threads EXCEPT ![i].st = "done"]
    /\ UNCHANGED q
    /\ UNCHANGED <<installVars, openVars, pureVars, navVars, loopVars>>

WorkerStep(i) ==
    \/ \E v \in ChatLists \cup Previews : CallbackReturns(i, v)
    \/ \E e \in Errors : CallbackRaises(i, e)
    \/ PutResult(i)
    \/ FinallyDiscard(i)

\* drain, lines 421-428
Drained == SubSeq(q, 1, IF Len(q) < DrainMax THEN Len(q) ELSE DrainMax)

AfterDrain == SubSeq(q, Len(Drained) + 1, Len(q))

\* callers of the loader outside the render loop
CallEnsure(L) ==
    /\ Len(L.threads) <= MaxRequests
    /\ SetLoader(L)
    /\ UNCHANGED <<q, installVars, openVars, pureVars, navVars, loopVars>>

CallEnsureChats(ws) == CallEnsure(ensure_chats(LoaderState, ws))

CallEnsurePreviewSnippet(chat, m) == CallEnsure(ensure_preview_snippet(LoaderState, chat, m))

CallEnsurePreviewFull(chat) == CallEnsure(ensure_preview_full(LoaderState, chat))

CallDrain ==
    /\ q # <<>>
    /\ q' = AfterDrain
    /\ UNCHANGED <<chats_inflight, preview_snippet_inflight, preview_full_inflight, threads>>
    /\ UNCHANGED <<installVars, openVars, pureVars, navVars, loopVars>>

NextLoader ==
    \/ \E ws \in Workspaces : CallEnsureChats(ws)
    \/ \E c \in ChatIds, m \in SnippetSizes : CallEnsurePreviewSnippet(c, m)
    \/ \E c \in ChatIds : CallEnsurePreviewFull(c)
    \/ \E i \in 1..MaxRequests, v \in ChatLists \cup Previews : CallbackReturns(i, v)
    \/ \E i \in 1..MaxRequests, e \in Errors : CallbackRaises(i, e)
    \/ \E i \in 1..MaxRequests : PutResult(i)
    \/ \E i \in 1..MaxRequests : FinallyDiscard(i)
    \/ CallDrain

(***************************************************************************)
(* select_chat, lines 1131-1897: the render loop, as far as it talks to    *)
(* the loader and to the update check thread                               *)
(***************************************************************************)
\* the in-memory caches of the render loop, as one value
CacheState ==
    [chat_cache |-> chat_cache, chat_error |-> chat_error, chat_loading |-> chat_loading,
     snippet_cache |-> preview_snippet_cache, snippet_error |-> preview_snippet_error,
     snippet_loading |-> preview_snippet_loading,
     full_cache |-> preview_full_cache, full_error |-> preview_full_error,
     full_loading |-> preview_full_loading]

SetCaches(U) ==
    /\ chat_cache' = U.chat_cache /\ chat_error' = U.chat_error
    /\ chat_loading' = U.chat_loading
    /\ preview_snippet_cache' = U.snippet_cache /\ preview_snippet_error' = U.snippet_error
    /\ preview_snippet_loading' = U.snippet_loading
    /\ preview_full_cache' = U.full_cache /\ preview_full_error' = U.full_error
    /\ preview_full_loading' = U.full_loading

\* lines 1271-1317: apply one drained result to the caches
ApplyItem(U, item) ==
    CASE item[1] = "chats_ok" ->
            [U EXCEPT !.chat_cache = DictPut(@, item[2], item[3]),
                      !.chat_error = DictPop(@, item[2]),
                      !.chat_loading = @ \ {item[2]}]
      [] item[1] = "chats_err" ->
            [U EXCEPT !.chat_cache = DictPut(@, item[2], <<>>),
                      !.chat_error = DictPut(@, item[2], item[3]),
                      !.chat_loading = @ \ {item[2]}]
      [] item[1] = "preview_snippet_ok" ->
            [U EXCEPT !.snippet_cache = DictPut(@, <<item[2], item[3]>>, item[4]),
                      !.snippet_error = DictPop(@, <<item[2], item[3]>>),
                      !.snippet_loading = @ \ {<<item[2], item[3]>>}]
      [] item[1] = "preview_snippet_err" ->
            [U EXCEPT !.snippet_cache = DictPut(@, <<item[2], item[3]>>, NonePreview),
                      !.snippet_error = DictPut(@, <<item[2], item[3]>>, item[4]),
                      !.snippet_loading = @ \ {<<item[2], item[3]>>}]
      [] item[1] = "preview_full_ok" ->
            [U EXCEPT !.full_cache = DictPut(@, item[2], item[3]),
                      !.full_error = DictPop(@, item[2]),
                      !.full_loading = @ \ {item[2]}]
      [] item[1] = "preview_full_err" ->
            [U EXCEPT !.full_cache = DictPut(@, item[2], NonePreview),
                      !.full_error = DictPut(@, item[2], item[3]),
                      !.full_loading = @ \ {item[2]}]
      [] OTHER -> U

RECURSIVE ApplyItems(_, _)
ApplyItems(U, items) ==
    IF items = <<>> THEN U ELSE ApplyItems(ApplyItem(U, Head(items)), Tail(items))

\* The three get_* closures return the cached value, or request a load.
\* Each yields the new caches U, the new loader state L and the value.
\* get_chats, lines 1230-1237
get_chats(U, L, ws) ==
    IF ws \in DOMAIN U.chat_cache THEN [U |-> U, L |-> L, val |-> U.chat_cache[ws]]
    ELSE IF ws \notin U.chat_loading
         THEN [U |-> [U EXCEPT !.chat_loading = @ \cup {ws}], L |-> ensure_chats(L, ws), val |-> <<>>]
         ELSE [U |-> U, L |-> L, val |-> <<>>]

\* get_preview_snippet, lines 1239-1246
get_preview_snippet(U, L, chat, max_messages) ==
    LET key == <<chat, max_messages>>
    IN  IF key \in DOMAIN U.snippet_cache THEN [U |-> U, L |-> L, val |-> U.snippet_cache[key]]
        ELSE IF key \notin U.snippet_loading
             THEN [U |-> [U EXCEPT !.snippet_loading = @ \cup {key}],
                   L |-> ensure_preview_snippet(L, chat, max_messages), val |-> NonePreview]
             ELSE [U |-> U, L |-> L, val |-> NonePreview]

\* get_preview_full, lines 1248-1255
get_preview_full(U, L, chat) ==
    IF chat \in DOMAIN U.full_cache THEN [U |-> U, L |-> L, val |-> U.full_cache[chat]]
    ELSE IF chat \notin U.full_loading
         THEN [U |-> [U EXCEPT !.full_loading = @ \cup {chat}],
               L |-> ensure_preview_full(L, chat), val |-> NonePreview]
         ELSE [U |-> U, L |-> L, val |-> NonePreview]

\* variant: no `if update_checking: return`, a check may start while one runs
start_update_check_while_checking(force) ==
    IF (~force) /\ update_checked_at # 0 /\ (now - update_checked_at) < UpdateIntervalS
    THEN [checking |-> update_checking, at |-> update_checked_at, threads |-> upd_threads]
    ELSE [checking |-> TRUE, at |-> now,
          threads |-> Append(upd_threads, [st |-> "run", at |-> now])]

\* _start_update_check, lines 1171-1193: the new update-check variables
start_update_check(force) ==
    IF (~force) /\ update_checked_at # 0 /\ (now - update_checked_at) < UpdateIntervalS
    THEN [checking |-> update_checking, at |-> update_checked_at, threads |-> upd_threads]
    ELSE IF update_checking
    THEN [checking |-> update_checking, at |-> update_checked_at, threads |-> upd_threads]
    ELSE [checking |-> TRUE, at |-> now,
          threads |-> Append(upd_threads, [st |-> "run", at |-> now])]

SetUpdateCheck(r) ==
    /\ update_checking' = r.checking
    /\ update_checked_at' = r.at
    /\ upd_threads' = r.threads

\* line 1195: _start_update_check(force=True) before the loop
LoopInit ==
    /\ ui_pc = "init"
    /\ SetUpdateCheck(start_update_check(TRUE))
    /\ ui_pc' = "top"
    /\ UNCHANGED <<update_q, update_status, cacheVars, now, timeout, loaderVars, installVars, openVars, pureVars, navVars>>

\* lines 1259-1317: take the newest update status, maybe start a check,
\* drain the loader queue into the caches
LoopTop ==
    /\ ui_pc = "top"
    /\ update_status' = IF update_q # <<>> THEN update_q[Len(update_q)] ELSE update_status
    /\ update_q' = <<>>
    /\ SetUpdateCheck(start_update_check(FALSE))
    /\ SetCaches(ApplyItems(CacheState, Drained))
    /\ q' = AfterDrain
    /\ ui_pc' = "draw"
    /\ UNCHANGED <<chats_inflight, preview_snippet_inflight, preview_full_inflight, threads>>
    /\ UNCHANGED <<now, timeout, installVars, openVars, pureVars, navVars>>

\* lines 1347-1431: build the frame for the selected workspace ws ("None"
\* when there is no workspace), the selected chat sel ("None" when the
\* selected row is not a chat) and the focus
DrawCore(ws, sel, focus_preview) ==
    /\ ui_pc = "draw"
    /\ LET r1 == IF ws = "None" THEN [U |-> CacheState, L |-> LoaderState, val |-> <<>>]
                 ELSE get_chats(CacheState, LoaderState, ws)
           has_sel == \E k \in 1..Len(r1.val) : r1.val[k] = sel
           r2 == IF ~has_sel THEN r1
                 ELSE IF focus_preview THEN get_preview_full(r1.U, r1.L, sel)
                 ELSE get_preview_snippet(r1.U, r1.L, sel, 8)
           \* lines 1409-1414: fall back to the snippet while the full preview is loading
           r3 == IF has_sel /\ focus_preview /\ r2.val = NonePreview /\ sel \notin DOMAIN r2.U.full_error
                 THEN get_preview_snippet(r2.U, r2.L, sel, 8)
                 ELSE r2
       IN  /\ (sel # "None" => has_sel)
           /\ Len(r3.L.threads) <= MaxRequests
           /\ SetCaches(r3.U)
           /\ SetLoader(r3.L)
    /\ ui_pc' = "wait"
    /\ UNCHANGED <<q, updateVars, now, timeout, installVars, openVars, pureVars>>

\* lines 1485-1495: the right-hand status bar text, without the version
UpdateRight ==
    IF update_status = NoStatus
    THEN (IF update_checking THEN "v checking" ELSE "v")
    ELSE IF update_status.supported
         THEN (IF update_status.update_available THEN "v  Ctrl+U upgrade" ELSE "v latest")
         ELSE "v"

\* one frame, for any selected workspace, selected chat and focus
Draw(ws, sel, focus_preview) ==
    /\ DrawCore(ws, sel, focus_preview)
    /\ update_right' = UpdateRight
    /\ UNCHANGED <<focus, last_list_focus, input_mode, ws_filter, chat_filter, ws_state, chat_state,
                   layout, cur_ws, last_click_target, result>>

\* the polling decision of line 1616
InputTimeout == IF has_pending THEN PollMs ELSE Block

\* lines 1614-1618: stdscr.timeout(80 if bg.has_pending() else -1)
Wait ==
    /\ ui_pc = "wait"
    /\ timeout' = InputTimeout
    /\ ui_pc' = "getch"
    /\ UNCHANGED <<cacheVars, updateVars, now, loaderVars, installVars, openVars, pureVars, navVars>>

\* lines 1620-1649: getch() returns -1 on a timeout, else a key; q quits
Getch(ev) ==
    /\ ui_pc = "getch"
    /\ ev = "timeout" => timeout = PollMs
    /\ ui_pc' = IF ev = "q" THEN "quit" ELSE "top"
    /\ UNCHANGED <<cacheVars, updateVars, now, timeout, loaderVars, installVars, openVars, pureVars, navVars>>

\* the update check thread, lines 1182-1189: check_for_update returns a
\* status or raises, the status goes onto update_q
UpdateCheckRun(i, st) ==
    /\ i \in 1..Len(upd_threads) /\ upd_threads[i].st = "run"
    /\ update_q' = Append(update_q, st)
    /\ upd_threads' = [upd_threads EXCEPT ![i].st = "put"]
    /\ UNCHANGED <<update_status, update_checked_at, update_checking>>
    /\ UNCHANGED <<ui_pc, cacheVars, now, timeout, loaderVars, installVars, openVars, pureVars, navVars>>

\* lines 1190-1191: finally: update_checking = False
UpdateCheckFinally(i) ==
    /\ i \in 1..Len(upd_threads) /\ upd_threads[i].st = "put"
    /\ update_checking' = FALSE
    /\ upd_threads' = [upd_threads EXCEPT ![i].st = "done"]
    /\ UNCHANGED <<update_q, update_status, update_checked_at>>
    /\ UNCHANGED <<ui_pc, cacheVars, now, timeout, loaderVars, installVars, openVars, pureVars, navVars>>

\* time.monotonic() advances
Tick ==
    /\ now + TickS <= StartNow + MaxTicks * TickS
    /\ now' = now + TickS
    /\ UNCHANGED <<ui_pc, cacheVars, updateVars, timeout, loaderVars, installVars, openVars, pureVars, navVars>>

\* the workspace selected when the render loop draws: one workspace or
\* none; a second workspace only adds the same states under another name
LoopWorkspaces == {"w1", "None"}

NextLoop ==
    \/ LoopInit
    \/ LoopTop
    \/ \E ws \in LoopWorkspaces, sel \in ChatIds \cup {"None"}, f \in BOOLEAN : Draw(ws, sel, f)
    \/ Wait
    \/ \E ev \in {"timeout", "key", "q"} : Getch(ev)
    \/ \E i \in 1..(MaxTicks + 1), st \in {UpToDate, Available, CheckFailed} : UpdateCheckRun(i, st)
    \/ \E i \in 1..(MaxTicks + 1) : UpdateCheckFinally(i)
    \/ Tick
    \/ \E i \in 1..MaxRequests, v \in ChatLists \cup Previews : CallbackReturns(i, v)
    \/ \E i \in 1..MaxRequests, e \in Errors : CallbackRaises(i, e)
    \/ \E i \in 1..MaxRequests : PutResult(i)
    \/ \E i \in 1..MaxRequests : FinallyDiscard(i)

(***************************************************************************)
(* select_chat: the lists, the focus, the filters and the key handling     *)
(***************************************************************************)
\* the workspaces argument of select_chat
WorkspaceList == <<"w1", "w2">>

\* the display label of a workspace row (line 1345) and of a chat row
\* (line 1358), as characters
WsLabel(w) == IF w = "w1" THEN <<"w", "1">> ELSE <<"Q", "2">>

ChatLabel(c) == <<"c", "1">>

\* the rows of a list: a workspace, a chat or one of the synthetic rows
WsItem(w) == [kind |-> "workspace", id |-> w, label |-> WsLabel(w), always_visible |-> FALSE]

ChatItem(c) == [kind |-> "chat", id |-> c, label |-> ChatLabel(c), always_visible |-> FALSE]

NEW_AGENT_ITEM == [kind |-> "new_agent", id |-> NoneValue, label |-> <<"(">>, always_visible |-> TRUE]

LOADING_ITEM == [kind |-> "loading", id |-> NoneValue, label |-> <<"(">>, always_visible |-> TRUE]

ErrorItem(message) == [kind |-> "error", id |-> message, label |-> <<"(">>, always_visible |-> TRUE]

\* str.lower() on one character
Lower(c) == IF c = "Q" THEN "q" ELSE c

LowerAll(str) == [k \in 1..Len(str) |-> Lower(str[k])]

\* Python's `n in label`: n occurs in label as a substring
Contains(label, n) ==
    \E k \in 0..(Len(label) - Len(n)) : \A j \in 1..Len(n) : label[k + j] = n[j]

\* _filter_items without the always_visible test
filter_items_all_filtered(items, needle) ==
    IF needle = <<>> THEN items
    ELSE LET Keep(it) == Contains(LowerAll(it.label), LowerAll(needle))
         IN  SelectSeq(items, Keep)

\* _filter_items, lines 921-932
filter_items(items, needle) ==
    IF needle = <<>> THEN items
    ELSE LET Keep(it) == it.always_visible \/ Contains(LowerAll(it.label), LowerAll(needle))
         IN  SelectSeq(items, Keep)

\* clamp(v, lo, hi) of formatting.py
clamp(v, lo, hi) == IF v < lo THEN lo ELSE IF v > hi THEN hi ELSE v

MaxOf(a, b) == IF a > b THEN a ELSE b

\* ListState.clamp, lines 499-505
ls_clamp(st, n_items) ==
    IF n_items <= 0 THEN [selected |-> 0, scroll |-> 0]
    ELSE [selected |-> clamp(st.selected, 0, n_items - 1),
          scroll |-> clamp(st.scroll, 0, MaxOf(0, n_items - 1))]

\* ListState.move, lines 507-512
ls_move(st, delta, n_items) ==
    IF n_items <= 0 THEN [selected |-> 0, scroll |-> 0]
    ELSE [st EXCEPT !.selected = clamp(st.selected + delta, 0, n_items - 1)]

\* ListState.page, lines 514-515
ls_page(st, delta_pages, page_size, n_items) ==
    ls_move(st, delta_pages * MaxOf(1, page_size), n_items)

\* ensure_visible without its last statement, the clamp of the scroll
ls_ensure_visible_unclamped(st, view_h, n_items) ==
    IF n_items <= 0 \/ view_h <= 0 THEN [st EXCEPT !.scroll = 0]
    ELSE IF st.selected < st.scroll THEN [st EXCEPT !.scroll = st.selected]
    ELSE IF st.selected >= st.scroll + view_h THEN [st EXCEPT !.scroll = st.selected - view_h + 1]
    ELSE st

\* ListState.ensure_visible, lines 517-529
ls_ensure_visible(st, view_h, n_items) ==
    IF n_items <= 0 \/ view_h <= 0 THEN [st EXCEPT !.scroll = 0]
    ELSE LET max_scroll == MaxOf(0, n_items - view_h)
             s1 == IF st.selected < st.scroll THEN st.selected
                   ELSE IF st.selected >= st.scroll + view_h THEN st.selected - view_h + 1
                   ELSE st.scroll
         IN  [st EXCEPT !.scroll = clamp(s1, 0, max_scroll)]

\* _list_rows, lines 952-954: drawing a list clamps its state
list_rows(st, view_h, n_items) == ls_ensure_visible(ls_clamp(st, n_items), view_h, n_items)

\* lines 1335-1345
ws_items == [k \in 1..Len(WorkspaceList) |-> WsItem(WorkspaceList[k])]

\* current_workspace, lines 1224-1228
current_workspace == WorkspaceList[clamp(ws_state.selected, 0, Len(WorkspaceList) - 1) + 1]

\* lines 1350-1359: the rows of the chat list of workspace w, whose chat
\* list as returned by get_chats is chats, under the caches U
chat_items_of(U, w, chats) ==
    <<NEW_AGENT_ITEM>>
        \o (IF w \in U.chat_loading /\ chats = <<>> THEN <<LOADING_ITEM>> ELSE <<>>)
        \o (IF w \in DOMAIN U.chat_error /\ chats = <<>> THEN <<ErrorItem(U.chat_error[w])>> ELSE <<>>)
        \o [k \in 1..Len(chats) |-> ChatItem(chats[k])]

\* the chat rows the key handler sees: those of the frame just drawn
chat_items ==
    chat_items_of(CacheState, cur_ws,
                  IF cur_ws \in DOMAIN chat_cache THEN chat_cache[cur_ws] ELSE <<>>)

\* the terminal sizes of a frame: the layout mode and the inner height of
\* the list panes (compute_layout, lines 450-491)
Layouts == {[mode |-> "3col", view_h |-> 8], [mode |-> "1col", view_h |-> 1]}

\* lines 1347-1380 and 1523-1581: one frame for the current selection: the
\* chat list of the selected workspace is requested, the chat selection is
\* clamped, the preview of a selected chat is requested, and drawing a list
\* pane clamps its state
Frame(lay) ==
    /\ ui_pc = "draw"
    /\ LET w == current_workspace
           r1 == get_chats(CacheState, LoaderState, w)
           filtered == filter_items(chat_items_of(r1.U, w, r1.val), chat_filter)
           cs1 == IF filtered # <<>> THEN ls_clamp(chat_state, Len(filtered)) ELSE chat_state
           obj == filtered[cs1.selected + 1]
           sel == IF filtered # <<>> /\ obj.kind = "chat" THEN obj.id ELSE "None"
           list_mode == IF focus = "preview" THEN last_list_focus ELSE focus
           ws_n == Len(filter_items(ws_items, ws_filter))
       IN  /\ DrawCore(w, sel, focus = "preview")
           /\ cur_ws' = w
           /\ ws_state' = IF lay.mode # "1col" \/ list_mode = "workspaces"
                          THEN list_rows(ws_state, lay.view_h, ws_n) ELSE ws_state
           /\ chat_state' = IF lay.mode # "1col" \/ list_mode = "chats"
                            THEN list_rows(cs1, lay.view_h, Len(filtered)) ELSE cs1
    /\ layout' = lay
    /\ update_right' = UpdateRight
    /\ UNCHANGED <<focus, last_list_focus, input_mode, ws_filter, chat_filter, last_click_target, result>>

\* the values getch() returns, by name; Printable are those with
\* 32 <= ch <= 126 (line 1640)
Printable == {"q", "Q", "/", "k", "j"}

NavKeys == {"KEY_UP", "KEY_DOWN", "KEY_PPAGE", "KEY_NPAGE", "KEY_HOME", "KEY_END", "k", "j"}

Keys == Printable \cup NavKeys
            \cup {"ESC", "KEY_ENTER", "KEY_BACKSPACE", "CTRL_U", "TAB", "KEY_LEFT", "KEY_RIGHT", "KEY_RESIZE"}

\* what curses.getmouse() reports: the pane under the pointer, the row
\* inside the pane, the button state, and whether the previous click was
\* at most 0.35 s ago (line 1749)
MouseRows == 0..2

MouseEvents ==
    [pane : {"preview", "workspaces", "conversations", "outside"},
     row : MouseRows,
     bstate : {"wheel_up", "wheel_down", "click", "double", "release"},
     fast : BOOLEAN]

NoMouse == [pane |-> "outside", row |-> 0, bstate |-> "release", fast |-> FALSE]

\* the filter texts typed
FilterTexts == {<<>>, <<"q">>, <<"Q">>, <<"/">>}

\* the local variables of select_chat the key handler reads and writes
NavState ==
    [focus |-> focus, last_list_focus |-> last_list_focus, input_mode |-> input_mode,
     ws_filter |-> ws_filter, chat_filter |-> chat_filter, ws_state |-> ws_state,
     chat_state |-> chat_state, last_click_target |-> last_click_target, result |-> NoResult]

DropLast(str) == IF str = <<>> THEN <<>> ELSE SubSeq(str, 1, Len(str) - 1)

ResetList == [selected |-> 0, scroll |-> 0]

\* lines 1753-1760 and 1889-1896: open the selected row of the chat list
OpenSelected(S) ==
    LET filtered == filter_items(chat_items, S.chat_filter)
        cs == ls_clamp(S.chat_state, Len(filtered))
        selected == filtered[cs.selected + 1]
    IN  IF filtered = <<>> THEN S
        ELSE [S EXCEPT !.chat_state = cs,
                       !.result = IF selected.kind = "chat"
                                  THEN <<"resume", cur_ws, selected.id>>
                                  ELSE <<"new", cur_ws>>]

\* lines 1740-1765 and 1789-1809: a click on row idx of the chat list
ClickChat(S, m, idx) ==
    LET n == Len(filter_items(chat_items, S.chat_filter))
        cs == ls_clamp([S.chat_state EXCEPT !.selected = idx], n)
        S1 == [S EXCEPT !.chat_state = cs, !.focus = "chats", !.last_list_focus = "chats"]
        target == <<"chats", cs.selected>>
    IN  IF m.bstate = "double" \/ (m.bstate = "click" /\ S.last_click_target = target /\ m.fast)
        THEN OpenSelected(S1)
        ELSE IF m.bstate = "click" THEN [S1 EXCEPT !.last_click_target = target]
        ELSE S1

\* lines 1727-1733 and 1778-1783: a click on row idx of the workspace list
ClickWorkspace(S, idx) ==
    LET n == Len(filter_items(ws_items, S.ws_filter))
    IN  [S EXCEPT !.ws_state = ls_clamp([S.ws_state EXCEPT !.selected = idx], n),
                  !.focus = "workspaces", !.last_list_focus = "workspaces",
                  !.chat_state = ResetList]

\* lines 1693-1811: a mouse event
Mouse(S, m) ==
    LET delta == IF m.bstate = "wheel_up" THEN -3 ELSE IF m.bstate = "wheel_down" THEN 3 ELSE 0
        is_click == m.bstate = "click"
        ws_n == Len(filter_items(ws_items, S.ws_filter))
        chat_n == Len(filter_items(chat_items, S.chat_filter))
        list_mode == IF S.focus = "preview" THEN S.last_list_focus ELSE S.focus
        in_list == m.pane \in {"workspaces", "conversations"}
    IN  IF m.pane = "preview"
        THEN (IF delta = 0 /\ is_click THEN [S EXCEPT !.focus = "preview"] ELSE S)
        ELSE IF layout.mode # "1col" /\ m.pane = "workspaces"
        THEN (IF delta # 0 THEN [S EXCEPT !.ws_state = ls_move(S.ws_state, delta, ws_n)]
              ELSE ClickWorkspace(S, S.ws_state.scroll + m.row))
        ELSE IF layout.mode # "1col" /\ m.pane = "conversations"
        THEN (IF delta # 0 THEN [S EXCEPT !.chat_state = ls_move(S.chat_state, delta, chat_n)]
              ELSE ClickChat(S, m, S.chat_state.scroll + m.row))
        ELSE IF layout.mode = "1col" /\ in_list
        THEN (IF delta # 0
              THEN (IF list_mode = "workspaces"
                    THEN [S EXCEPT !.ws_state = ls_move(S.ws_state, delta, ws_n)]
                    ELSE [S EXCEPT !.chat_state = ls_move(S.chat_state, delta, chat_n)])
              ELSE IF list_mode = "workspaces"
              THEN LET S1 == ClickWorkspace(S, S.ws_state.scroll + m.row)
                   IN  IF is_click
                       THEN [S1 EXCEPT !.last_click_target = <<"workspaces", S1.ws_state.selected>>]
                       ELSE S1
              ELSE ClickChat(S, m, S.chat_state.scroll + m.row))
        ELSE S

\* lines 1836-1856: a key while the workspace list has the focus
WorkspaceKey(S, ch) ==
    LET n == Len(filter_items(ws_items, S.ws_filter))
        view_h == MaxOf(1, layout.view_h)
        st == S.ws_state
        moved == IF ch \in {"KEY_UP", "k"} THEN ls_move(st, -1, n)
                 ELSE IF ch \in {"KEY_DOWN", "j"} THEN ls_move(st, 1, n)
                 ELSE IF ch = "KEY_PPAGE" THEN ls_page(st, -1, view_h, n)
                 ELSE IF ch = "KEY_NPAGE" THEN ls_page(st, 1, view_h, n)
                 ELSE IF ch = "KEY_HOME" THEN [st EXCEPT !.selected = 0]
                 ELSE [st EXCEPT !.selected = MaxOf(0, n - 1)]
    IN  IF ch \notin NavKeys THEN S
        ELSE [S EXCEPT !.ws_state = ls_ensure_visible(moved, view_h, n),
                       !.chat_state = ResetList]

\* lines 1858-1896: a key while the chat list has the focus
ChatKey(S, ch) ==
    LET n == Len(filter_items(chat_items, S.chat_filter))
        view_h == MaxOf(1, layout.view_h)
        st == S.chat_state
        moved == IF ch \in {"KEY_UP", "k"} THEN ls_move(st, -1, n)
                 ELSE IF ch \in {"KEY_DOWN", "j"} THEN ls_move(st, 1, n)
                 ELSE IF ch = "KEY_PPAGE" THEN ls_page(st, -1, view_h, n)
                 ELSE IF ch = "KEY_NPAGE" THEN ls_page(st, 1, view_h, n)
                 ELSE IF ch = "KEY_HOME" THEN [st EXCEPT !.selected = 0]
                 ELSE [st EXCEPT !.selected = MaxOf(0, n - 1)]
    IN  IF ch \in NavKeys THEN [S EXCEPT !.chat_state = ls_ensure_visible(moved, view_h, n)]
        ELSE IF ch = "KEY_ENTER" THEN OpenSelected(S)
        ELSE S

\* a q typed into a filter quits (what lines 1627-1646 prevent)
FilterKeyQuits(S, ch) ==
    IF ch \in {"q", "Q"} THEN [S EXCEPT !.result = <<"quit">>]
    ELSE IF ch \in {"ESC", "KEY_ENTER"} THEN [S EXCEPT !.input_mode = NoneValue]
    ELSE S

\* lines 1627-1646: a key while a filter is being typed
FilterKey(S, ch) ==
    IF ch \in {"ESC", "KEY_ENTER"} THEN [S EXCEPT !.input_mode = NoneValue]
    ELSE IF ch = "KEY_BACKSPACE"
    THEN (IF S.input_mode = "ws" THEN [S EXCEPT !.ws_filter = DropLast(@)]
          ELSE [S EXCEPT !.chat_filter = DropLast(@)])
    ELSE IF ch \in Printable
    THEN (IF S.input_mode = "ws" THEN [S EXCEPT !.ws_filter = Append(@, ch)]
          ELSE [S EXCEPT !.chat_filter = Append(@, ch)])
    ELSE S

\* Left from the chat list moves the focus and forgets to record it
FocusKeyLeftNotRecorded(S, ch) ==
    IF ch = "TAB"
    THEN (IF S.focus = "workspaces" THEN [S EXCEPT !.focus = "chats", !.last_list_focus = "chats"]
          ELSE IF S.focus = "chats" THEN [S EXCEPT !.focus = "preview"]
          ELSE [S EXCEPT !.focus = "workspaces", !.last_list_focus = "workspaces"])
    ELSE IF ch = "KEY_LEFT"
    THEN (IF S.focus = "preview" THEN [S EXCEPT !.focus = S.last_list_focus]
          ELSE [S EXCEPT !.focus = "workspaces"])
    ELSE (IF S.focus = "workspaces" THEN [S EXCEPT !.focus = "chats", !.last_list_focus = "chats"]
          ELSE IF S.focus = "chats" THEN [S EXCEPT !.focus = "preview"]
          ELSE [S EXCEPT !.focus = S.last_list_focus])

\* lines 1657-1685: Tab, Left and Right move the focus
FocusKey(S, ch) ==
    IF ch = "TAB"
    THEN (IF S.focus = "workspaces" THEN [S EXCEPT !.focus = "chats", !.last_list_focus = "chats"]
          ELSE IF S.focus = "chats" THEN [S EXCEPT !.focus = "preview"]
          ELSE [S EXCEPT !.focus = "workspaces", !.last_list_focus = "workspaces"])
    ELSE IF ch = "KEY_LEFT"
    THEN (IF S.focus = "preview" THEN [S EXCEPT !.focus = S.last_list_focus]
          ELSE [S EXCEPT !.focus = "workspaces", !.last_list_focus = "workspaces"])
    ELSE (IF S.focus = "workspaces" THEN [S EXCEPT !.focus = "chats", !.last_list_focus = "chats"]
          ELSE IF S.focus = "chats" THEN [S EXCEPT !.focus = "preview"]
          ELSE [S EXCEPT !.focus = S.last_list_focus])

\* Ctrl+U asks for the upgrade whenever a check succeeded, update or not
CtrlUWithoutUpdate(S) ==
    IF update_status # NoStatus /\ update_status.supported
    THEN [S EXCEPT !.result = <<"update_requested">>]
    ELSE S

\* lines 1651-1655: Ctrl+U asks for the upgrade when the applied status
\* says one can be installed
CtrlU(S) ==
    IF update_status # NoStatus /\ update_status.supported /\ update_status.update_available
    THEN [S EXCEPT !.result = <<"update_requested">>]
    ELSE S

\* lines 1648-1649: q and Q quit
Quit(S) == [S EXCEPT !.result = <<"quit">>]

\* lines 1624-1896: what the handler does with the value ch of getch()
\* (and the mouse event m when ch is KEY_MOUSE)
HandleKey(S, ch, m) ==
    IF ch = "KEY_RESIZE" THEN S
    ELSE IF S.input_mode # NoneValue THEN FilterKey(S, ch)
    ELSE IF ch \in {"q", "Q"} THEN Quit(S)
    ELSE IF ch = "CTRL_U" THEN CtrlU(S)
    ELSE IF ch \in {"TAB", "KEY_LEFT", "KEY_RIGHT"} THEN FocusKey(S, ch)
    ELSE IF ch = "/"
    THEN LET base == IF S.focus = "preview" THEN S.last_list_focus ELSE S.focus
         IN  [S EXCEPT !.input_mode = IF base = "workspaces" THEN "ws" ELSE "chat"]
    ELSE IF ch = "KEY_MOUSE" THEN Mouse(S, m)
    ELSE IF S.focus = "preview" THEN S
    ELSE IF S.focus = "workspaces" THEN WorkspaceKey(S, ch)
    ELSE ChatKey(S, ch)

\* the handler's result becomes the state of the loop: it returns (or
\* raises UpdateRequested) when result is set, else it continues
SetNav(S) ==
    /\ focus' = S.focus
    /\ last_list_focus' = S.last_list_focus
    /\ input_mode' = S.input_mode
    /\ ws_filter' = S.ws_filter
    /\ chat_filter' = S.chat_filter
    /\ ws_state' = S.ws_state
    /\ chat_state' = S.chat_state
    /\ last_click_target' = S.last_click_target
    /\ result' = S.result
    /\ ui_pc' = IF S.result = NoResult THEN "top" ELSE "ended"

\* lines 1620-1896: getch() returns a key (or a mouse event) and the
\* handler runs
Key(ch, m) ==
    /\ ui_pc = "getch"
    /\ layout # NoLayout
    /\ HandleKey(NavState, ch, m).ws_filter \in FilterTexts
    /\ HandleKey(NavState, ch, m).chat_filter \in FilterTexts
    /\ SetNav(HandleKey(NavState, ch, m))
    /\ UNCHANGED <<layout, cur_ws, update_right>>
    /\ UNCHANGED <<cacheVars, updateVars, now, timeout, loaderVars, installVars, openVars, pureVars>>

\* lines 1620-1622: getch() returns -1 when the poll timeout expires
GetchTimeout ==
    /\ ui_pc = "getch"
    /\ timeout = PollMs
    /\ ui_pc' = "top"
    /\ UNCHANGED <<cacheVars, updateVars, now, timeout, loaderVars, installVars, openVars, pureVars, navVars>>

(***************************************************************************)
(* opening.py: the cursor-agent flag probe and the launch of cursor-agent  *)
(***************************************************************************)
MaxCalls == 2

MaxTuiRuns == 2

\* threads that call start_cursor_agent_flag_probe: cmd_tui's thread and others
Threads == {"main", "t1"}

DEFAULT_CURSOR_AGENT_FLAGS == <<"--approve-mcps", "--browser", "--force">>

\* One occurrence of a flag's text in the help output: the flag, what stands
\* before it ("bol" line start, "space", "other") and what follows it
Occ(flag, before, after) == [flag |-> flag, before |-> before, after |-> after]

\* help outputs of cursor-agent: --forced and x--browser are not the flags
HelpTexts ==
    { <<>>,
      <<Occ("--browser", "space", "space"), Occ("--approve-mcps", "bol", "eol")>>,
      <<Occ("--force", "space", "other"), Occ("--browser", "other", "comma")>>,
      <<Occ("--force", "space", "comma"), Occ("--browser", "bol", "bracket"),
        Occ("--approve-mcps", "space", "eq")>> }

\* _help_supports_flag, lines 29-33: (^|\s)flag(\s|,|=|\[|$) with re.MULTILINE
help_supports_flag(help_text, flag) ==
    \E k \in 1..Len(help_text) :
        /\ help_text[k].flag = flag
        /\ help_text[k].before \in {"bol", "space"}
        /\ help_text[k].after \in {"space", "comma", "eq", "bracket", "eol"}

\* lines 60-63: the default flags found in the help text, in default order
SupportedFlags(txt) ==
    LET Test(f) == help_supports_flag(txt, f)
    IN  SelectSeq(DEFAULT_CURSOR_AGENT_FLAGS, Test)

\* get_cursor_agent_flags, lines 71-76
get_cursor_agent_flags ==
    IF PROBED_CURSOR_AGENT_FLAGS # NoneValue THEN PROBED_CURSOR_AGENT_FLAGS
    ELSE DEFAULT_CURSOR_AGENT_FLAGS

InitOpen ==
    /\ PROBE_LOCK = NoOwner
    /\ PROBE_STARTED = FALSE
    /\ PROBED_CURSOR_AGENT_FLAGS = NoneValue
    /\ FORCE_SUPPORTED = NoneValue
    /\ probe_pc = [c \in Threads |-> "idle"]
    /\ probe_seen = [c \in Threads |-> FALSE]
    /\ probe_calls = [c \in Threads |-> 0]
    /\ probes = <<>>
    /\ cli_pc = "start"
    /\ cli_rc = NoneValue
    /\ tui_runs = <<>>
    /\ selection = NoneValue
    /\ cmd = <<>>
    /\ execs = <<>>
    /\ agent_reply = NoneValue

\* a thread other than cmd_tui's calls start_cursor_agent_flag_probe
ProbeCall(c) ==
    /\ c # "main" /\ probe_pc[c] = "idle" /\ probe_calls[c] < MaxCalls
    /\ probe_pc' = [probe_pc EXCEPT ![c] = "acquire"]
    /\ probe_calls' = [probe_calls EXCEPT ![c] = @ + 1]
    /\ UNCHANGED <<PROBE_LOCK, PROBE_STARTED, PROBED_CURSOR_AGENT_FLAGS, probe_seen, probes>>
    /\ UNCHANGED <<cliVars, installVars, tuiVars, pureVars>>

\* variant: the guard is read and written without taking the lock
ProbeAcquireNoLock(c) ==
    /\ probe_pc[c] = "acquire"
    /\ probe_pc' = [probe_pc EXCEPT ![c] = "locked"]
    /\ UNCHANGED <<PROBE_LOCK, PROBE_STARTED, PROBED_CURSOR_AGENT_FLAGS, probe_seen, probe_calls, probes>>
    /\ UNCHANGED <<cliVars, installVars, tuiVars, pureVars>>

\* line 44: with _PROBE_LOCK
ProbeAcquire(c) ==
    /\ probe_pc[c] = "acquire" /\ PROBE_LOCK = NoOwner
    /\ PROBE_LOCK' = c
    /\ probe_pc' = [probe_pc EXCEPT ![c] = "locked"]
    /\ UNCHANGED <<PROBE_STARTED, PROBED_CURSOR_AGENT_FLAGS, probe_seen, probe_calls, probes>>
    /\ UNCHANGED <<cliVars, installVars, tuiVars, pureVars>>

\* line 45: if _PROBE_STARTED
ProbeCheck(c) ==
    /\ probe_pc[c] = "locked"
    /\ probe_seen' = [probe_seen EXCEPT ![c] = PROBE_STARTED]
    /\ probe_pc' = [probe_pc EXCEPT ![c] = "checked"]
    /\ UNCHANGED <<PROBE_LOCK, PROBE_STARTED, PROBED_CURSOR_AGENT_FLAGS, probe_calls, probes>>
    /\ UNCHANGED <<cliVars, installVars, tuiVars, pureVars>>

\* lines 46-47: return, or _PROBE_STARTED = True; the with block ends
ProbeMark(c) ==
    /\ probe_pc[c] = "checked"
    /\ PROBE_STARTED' = IF probe_seen[c] THEN PROBE_STARTED ELSE TRUE
    /\ PROBE_LOCK' = IF PROBE_LOCK = c THEN NoOwner ELSE PROBE_LOCK
    /\ probe_pc' = [probe_pc EXCEPT ![c] = IF probe_seen[c] THEN "idle" ELSE "spawn"]
    /\ UNCHANGED <<PROBED_CURSOR_AGENT_FLAGS, probe_seen, probe_calls, probes>>
    /\ UNCHANGED <<cliVars, installVars, tuiVars, pureVars>>

\* line 68: threading.Thread(target=_run, daemon=True).start()
ProbeSpawn(c) ==
    /\ probe_pc[c] = "spawn"
    /\ probes' = Append(probes, [st |-> "run", flags |-> NoneValue])
    /\ probe_pc' = [probe_pc EXCEPT ![c] = "idle"]
    /\ UNCHANGED <<PROBE_LOCK, PROBE_STARTED, PROBED_CURSOR_AGENT_FLAGS, probe_seen, probe_calls>>
    /\ UNCHANGED <<cliVars, installVars, tuiVars, pureVars>>

\* _run, lines 52-54: resolve_cursor_agent_path() finds the executable or not
ProbeResolve(i, found) ==
    /\ i \in 1..Len(probes) /\ probes[i].st = "run"
    /\ probes' = [probes EXCEPT ![i].st = IF found THEN "resolved" ELSE "no_agent"]
    /\ UNCHANGED <<PROBE_LOCK, PROBE_STARTED, PROBED_CURSOR_AGENT_FLAGS, probe_pc, probe_seen, probe_calls>>
    /\ UNCHANGED <<cliVars, installVars, tuiVars, pureVars>>

\* variant: a failed probe stores an empty flag list
ProbeHelpClearsOnFailure(i, res) ==
    /\ i \in 1..Len(probes) /\ probes[i].st = "resolved"
    /\ IF res.kind = "ok"
       THEN /\ PROBED_CURSOR_AGENT_FLAGS' = SupportedFlags(res.txt)
            /\ probes' = [probes EXCEPT ![i].st = "ok", ![i].flags = SupportedFlags(res.txt)]
       ELSE /\ PROBED_CURSOR_AGENT_FLAGS' = <<>>
            /\ probes' = [probes EXCEPT ![i].st = res.kind]
    /\ UNCHANGED <<PROBE_LOCK, PROBE_STARTED, probe_pc, probe_seen, probe_calls>>
    /\ UNCHANGED <<cliVars, installVars, tuiVars, pureVars>>

\* _run, lines 55-66: run `agent --help`; it raises ("raised"), exits with a
\* non-zero status ("nonzero") or prints its help ("ok")
ProbeHelp(i, res) ==
    /\ i \in 1..Len(probes) /\ probes[i].st = "resolved"
    /\ IF res.kind = "ok"
       THEN /\ PROBED_CURSOR_AGENT_FLAGS' = SupportedFlags(res.txt)
            /\ probes' = [probes EXCEPT ![i].st = "ok", ![i].flags = SupportedFlags(res.txt)]
       ELSE /\ UNCHANGED PROBED_CURSOR_AGENT_FLAGS
            /\ probes' = [probes EXCEPT ![i].st = res.kind]
    /\ UNCHANGED <<PROBE_LOCK, PROBE_STARTED, probe_pc, probe_seen, probe_calls>>
    /\ UNCHANGED <<cliVars, installVars, tuiVars, pureVars>>

\* what _default_runner([agent, "--help"], timeout_s) can do
HelpResults ==
    {[kind |-> "raised", txt |-> <<>>], [kind |-> "nonzero", txt |-> <<>>]}
        \cup {[kind |-> "ok", txt |-> t] : t \in HelpTexts}

\* _without_force_flag, lines 106-107
without_force_flag(c) ==
    LET Keep(x) == x \notin {"--force", "-f"}
    IN  SelectSeq(c, Keep)

HasForce(c) == \E k \in 1..Len(c) : c[k] \in {"--force", "-f"}

\* build_new_command / build_resume_command, lines 151-185, for a found agent
build_command(sel) ==
    <<"cursor-agent", "--workspace", "ws">> \o get_cursor_agent_flags
        \o (IF sel = "resume" THEN <<"--resume", "c1">> ELSE <<>>)

(***************************************************************************)
(* cli.py: cmd_tui, lines 350-426                                          *)
(***************************************************************************)
\* how one _run_tui invocation ends: it returns None ("quit") or a
\* selection ("new", "resume", "unknown_path": a workspace without a path),
\* or it raises curses.error, ExportPendingExit (the save then works or
\* fails), UpdateRequested or something else ("crash")
TuiOutcomes ==
    {"quit", "new", "resume", "unknown_path", "curses_error", "export_saved", "export_failed",
     "update_requested", "crash"}

\* _restart_self, lines 222-249: the process image is replaced, or it returns 0
restart_self(restarted) ==
    /\ cli_pc' = IF restarted THEN "replaced" ELSE "exit"
    /\ cli_rc' = IF restarted THEN cli_rc ELSE 0

\* lines 356-363: the platform-variant upgrade before anything else
CliAutoUpgrade(preferred_asset, ok, restarted) ==
    /\ cli_pc = "start"
    /\ IF preferred_asset /\ ok THEN restart_self(restarted)
       ELSE cli_pc' = "probe" /\ UNCHANGED cli_rc
    /\ UNCHANGED <<tui_runs, selection, cmd, execs, agent_reply, FORCE_SUPPORTED>>
    /\ UNCHANGED <<probeVars, installVars, tuiVars, pureVars>>

\* line 366: start_cursor_agent_flag_probe()
CliStartProbe ==
    /\ cli_pc = "probe"
    /\ cli_pc' = "probing"
    /\ probe_pc' = [probe_pc EXCEPT !["main"] = "acquire"]
    /\ probe_calls' = [probe_calls EXCEPT !["main"] = @ + 1]
    /\ UNCHANGED <<PROBE_LOCK, PROBE_STARTED, PROBED_CURSOR_AGENT_FLAGS, probe_seen, probes>>
    /\ UNCHANGED <<cli_rc, tui_runs, selection, cmd, execs, agent_reply, FORCE_SUPPORTED>>
    /\ UNCHANGED <<installVars, tuiVars, pureVars>>

\* lines 375-382: discover and pin the workspaces; none: return 1
CliDiscover(any_workspace) ==
    /\ cli_pc = "probing" /\ probe_pc["main"] = "idle"
    /\ cli_pc' = IF any_workspace THEN "loop" ELSE "exit"
    /\ cli_rc' = IF any_workspace THEN cli_rc ELSE 1
    /\ UNCHANGED <<tui_runs, selection, cmd, execs, agent_reply, FORCE_SUPPORTED>>
    /\ UNCHANGED <<probeVars, installVars, tuiVars, pureVars>>

\* variant: the loop has no break, a normal return runs the TUI again
RunTuiNoBreak(out) ==
    /\ cli_pc = "loop" /\ Len(tui_runs) < MaxTuiRuns
    /\ tui_runs' = Append(tui_runs, [out |-> out, upgrade |-> NoneValue])
    /\ selection' = IF out \in {"quit", "new", "resume", "unknown_path"} THEN out ELSE selection
    /\ cli_pc' = CASE out \in {"quit", "new", "resume", "unknown_path"} -> "loop"
                   [] out \in {"curses_error", "export_saved", "export_failed"} -> "exit"
                   [] out = "update_requested" -> "upgrade"
                   [] OTHER -> "raised"
    /\ cli_rc' = CASE out = "curses_error" -> 2
                   [] out = "export_saved" -> 0
                   [] out = "export_failed" -> 1
                   [] OTHER -> cli_rc
    /\ UNCHANGED <<cmd, execs, agent_reply, FORCE_SUPPORTED>>
    /\ UNCHANGED <<probeVars, installVars, tuiVars, pureVars>>

\* lines 384-415: one pass of the while loop: _run_tui and what follows it
RunTui(out) ==
    /\ cli_pc = "loop" /\ Len(tui_runs) < MaxTuiRuns
    /\ tui_runs' = Append(tui_runs, [out |-> out, upgrade |-> NoneValue])
    /\ selection' = IF out \in {"quit", "new", "resume", "unknown_path"} THEN out ELSE selection
    /\ cli_pc' = CASE out \in {"quit", "new", "resume", "unknown_path"} -> "selected"
                   [] out \in {"curses_error", "export_saved", "export_failed"} -> "exit"
                   [] out = "update_requested" -> "upgrade"
                   [] OTHER -> "raised"
    /\ cli_rc' = CASE out = "curses_error" -> 2
                   [] out = "export_saved" -> 0
                   [] out = "export_failed" -> 1
                   [] OTHER -> cli_rc
    /\ UNCHANGED <<cmd, execs, agent_reply, FORCE_SUPPORTED>>
    /\ UNCHANGED <<probeVars, installVars, tuiVars, pureVars>>

\* lines 407-415: except UpdateRequested: perform_update, restart or continue
CliUpgrade(ok, restarted) ==
    /\ cli_pc = "upgrade"
    /\ tui_runs' = [tui_runs EXCEPT ![Len(tui_runs)].upgrade = IF ok THEN "ok" ELSE "failed"]
    /\ IF ok THEN restart_self(restarted)
       ELSE cli_pc' = "loop" /\ UNCHANGED cli_rc
    /\ UNCHANGED <<selection, cmd, execs, agent_reply, FORCE_SUPPORTED>>
    /\ UNCHANGED <<probeVars, installVars, tuiVars, pureVars>>

\* lines 417-426: no selection: 0; unknown workspace path: 1; else launch
CliDispatch ==
    /\ cli_pc = "selected"
    /\ cli_pc' = IF selection \in {"new", "resume"} THEN "launch" ELSE "exit"
    /\ cli_rc' = CASE selection = "quit" -> 0
                   [] selection = "unknown_path" -> 1
                   [] OTHER -> cli_rc
    /\ UNCHANGED <<tui_runs, selection, cmd, execs, agent_reply, FORCE_SUPPORTED>>
    /\ UNCHANGED <<probeVars, installVars, tuiVars, pureVars>>

\* exec_new_chat / exec_resume_chat, lines 205-207, 228-230: chdir, then
\* build the command; without an agent build_*_command raises
LaunchBuild(agent_found) ==
    /\ cli_pc = "launch"
    /\ cli_pc' = IF agent_found THEN "prepare" ELSE "raised"
    /\ cmd' = IF agent_found THEN build_command(selection) ELSE cmd
    /\ UNCHANGED <<cli_rc, tui_runs, selection, execs, agent_reply, FORCE_SUPPORTED>>
    /\ UNCHANGED <<probeVars, installVars, tuiVars, pureVars>>

\* _prepare_exec_command, lines 110-118, with _supports_force_flag, lines
\* 79-103: `agent --force --help` exits 0 or not, the answer is cached
LaunchPrepare(force_help_ok) ==
    /\ cli_pc = "prepare"
    /\ IF HasForce(cmd)
       THEN LET ok == IF FORCE_SUPPORTED # NoneValue THEN FORCE_SUPPORTED ELSE force_help_ok
            IN  /\ FORCE_SUPPORTED' = ok
                /\ cmd' = IF ok THEN cmd ELSE without_force_flag(cmd)
       ELSE UNCHANGED <<FORCE_SUPPORTED, cmd>>
    /\ cli_pc' = "exec"
    /\ UNCHANGED <<cli_rc, tui_runs, selection, execs, agent_reply>>
    /\ UNCHANGED <<probeVars, installVars, tuiVars, pureVars>>

\* what happens at os.execvp: it raises ("exec_failed"), or cursor-agent
\* takes over the process and runs the chat ("started"), rejects --force
\* because 'Run Everything' is disabled, or fails otherwise
AgentReplies == {"exec_failed", "started", "run_everything_disabled", "other_failure"}

\* lines 214, 237: os.execvp(cmd[0], cmd)
LaunchExec(reply) ==
    /\ cli_pc = "exec"
    /\ reply = "run_everything_disabled" => HasForce(cmd)
    /\ execs' = Append(execs, cmd)
    /\ agent_reply' = reply
    /\ cli_pc' = IF reply = "exec_failed" THEN "raised" ELSE "launched"
    /\ UNCHANGED <<cli_rc, tui_runs, selection, cmd, FORCE_SUPPORTED>>
    /\ UNCHANGED <<probeVars, installVars, tuiVars, pureVars>>

NextCli ==
    \/ \E c \in Threads : ProbeCall(c)
    \/ \E c \in Threads : ProbeAcquire(c)
    \/ \E c \in Threads : ProbeCheck(c)
    \/ \E c \in Threads : ProbeMark(c)
    \/ \E c \in Threads : ProbeSpawn(c)
    \/ \E i \in 1..Cardinality(Threads), found \in BOOLEAN : ProbeResolve(i, found)
    \/ \E i \in 1..Cardinality(Threads), res \in HelpResults : ProbeHelp(i, res)
    \/ \E a, ok, r \in BOOLEAN : CliAutoUpgrade(a, ok, r)
    \/ CliStartProbe
    \/ \E w \in BOOLEAN : CliDiscover(w)
    \/ \E out \in TuiOutcomes : RunTui(out)
    \/ \E ok, r \in BOOLEAN : CliUpgrade(ok, r)
    \/ CliDispatch
    \/ \E f \in BOOLEAN : LaunchBuild(f)
    \/ \E h \in BOOLEAN : LaunchPrepare(h)
    \/ \E reply \in AgentReplies : LaunchExec(reply)

(***************************************************************************)
(* Functions without state: each is called once on arguments drawn from a  *)
(* bounded set                                                             *)
(***************************************************************************)
NoCall == [op |-> "none"]

NoReturn == <<>>

InitProgram == InitInstall /\ InitTui /\ InitOpen

\* the call returns v
Return(v) ==
    /\ ret = NoReturn
    /\ ret' = <<v>>
    /\ UNCHANGED <<args, installVars, tuiVars, openVars>>

\* terminal sizes: stdscr.getmaxyx()
MaxY == 13

MaxX == 190

Rect(y, x, h, w) == [y |-> y, x |-> x, h |-> h, w |-> w]

\* Rect.contains, lines 437-438
contains(r, y, x) == r.y <= y /\ y < r.y + r.h /\ r.x <= x /\ x < r.x + r.w

\* the 2-column preview always gets its minimum height
compute_layout_min_preview(max_y, max_x) ==
    LET usable_h == MaxOf(1, max_y - 1)
        left_w == MinOf({40, MaxOf(24, max_x \div 3)})
        conv_h == MaxOf(6, (usable_h * 6) \div 10)
    IN  IF max_x >= 80 /\ max_x < 120 /\ usable_h >= 10
        THEN [workspaces |-> Rect(0, 0, usable_h, left_w),
              conversations |-> Rect(0, left_w, conv_h, max_x - left_w),
              preview |-> Rect(conv_h, left_w, 3, max_x - left_w),
              mode |-> "2col"]
        ELSE [workspaces |-> Rect(0, 0, usable_h, max_x),
              conversations |-> Rect(0, 0, usable_h, max_x),
              preview |-> Rect(usable_h, 0, 0, max_x),
              mode |-> "1col"]

\* compute_layout, lines 450-491; int(usable_h * 0.60) is the integer
\* (usable_h * 6) \div 10 (the double product rounds to the exact value
\* for every height a terminal has)
compute_layout(max_y, max_x) ==
    LET usable_h == MaxOf(1, max_y - 1)
    IN  IF max_x >= 120 /\ usable_h >= 10
        THEN LET left_w == MinOf({40, MaxOf(24, max_x \div 4)})
                 mid_w == MinOf({60, MaxOf(32, max_x \div 3)})
                 right_w == MaxOf(20, max_x - left_w - mid_w)
             IN  [workspaces |-> Rect(0, 0, usable_h, left_w),
                  conversations |-> Rect(0, left_w, usable_h, mid_w),
                  preview |-> Rect(0, left_w + mid_w, usable_h, right_w),
                  mode |-> "3col"]
        ELSE IF max_x >= 80 /\ usable_h >= 10
        THEN LET left_w == MinOf({40, MaxOf(24, max_x \div 3)})
                 right_w == max_x - left_w
                 conv_h == MaxOf(6, (usable_h * 6) \div 10)
                 prev_h == MaxOf(3, usable_h - conv_h)
             IN  [workspaces |-> Rect(0, 0, usable_h, left_w),
                  conversations |-> Rect(0, left_w, conv_h, right_w),
                  preview |-> Rect(conv_h, left_w, prev_h, right_w),
                  mode |-> "2col"]
        ELSE LET list_h == IF usable_h <= 1 THEN usable_h
                           ELSE clamp(MaxOf(1, (usable_h * 6) \div 10), 1, usable_h - 1)
                 prev_h == IF usable_h <= 1 THEN 0 ELSE usable_h - list_h
             IN  [workspaces |-> Rect(0, 0, list_h, max_x),
                  conversations |-> Rect(0, 0, list_h, max_x),
                  preview |-> Rect(list_h, 0, prev_h, max_x),
                  mode |-> "1col"]

\* line 1320: layout = compute_layout(max_y, max_x)
InitLayout ==
    /\ InitProgram
    /\ args \in [op : {"compute_layout"}, max_y : 1..MaxY, max_x : 1..MaxX]
    /\ ret = NoReturn

CallComputeLayout ==
    /\ args.op = "compute_layout"
    /\ Return(compute_layout(args.max_y, args.max_x))

SpecLayout == InitLayout /\ [][CallComputeLayout]_vars

\* item counts and view heights of a list, and how far a stale selection
\* or scroll can lie outside the list
MaxItems == 4

\* lines 952-954: _list_rows on any ListState, item count and view height
InitListState ==
    /\ InitProgram
    /\ args \in [op : {"list_rows"},
                  st : [selected : -1..(MaxItems + 1), scroll : -1..(MaxItems + 1)],
                  n : 1..MaxItems, h : 1..MaxItems]
    /\ ret = NoReturn

CallListRows ==
    /\ args.op = "list_rows"
    /\ Return(list_rows(args.st, args.h, args.n))

SpecListState == InitListState /\ [][CallListRows]_vars

\* preview lines and inner heights of the preview pane
MaxLines == 4

MaxInnerH == 3

\* what a row of the pane's inner window shows: a line of the preview,
\* blanks, the bottom overlay, or nothing drawn yet (_inner_cache)
LineAt(n, idx) == IF idx < n THEN [kind |-> "line", idx |-> idx] ELSE [kind |-> "blank", idx |-> 0]

BlankRow == [kind |-> "blank", idx |-> 0]

OverlayRow == [kind |-> "overlay", idx |-> 0]

UnsetRow == [kind |-> "unset", idx |-> 0]

\* _Pane.__init__, lines 600-610: no cache and no last start
NewPane(inner_h) == [inner_h |-> inner_h, inner_cache |-> <<>>, preview_last_start |-> <<>>]

\* the content takes every row, the overlay's too
content_h_no_overlay_row(inner_h, bottom_overlay) == MaxOf(0, inner_h)

\* lines 770-771: the rows left for the content
content_h_of(inner_h, bottom_overlay) ==
    MaxOf(0, IF bottom_overlay /\ inner_h >= 1 THEN inner_h - 1 ELSE inner_h)

\* _Pane.draw_preview_lines, lines 733-918, on a pane P showing n lines
\* (line i is lines[i]); scroll_ok: inner.scroll(diff) does not raise
draw_preview_lines(P, n, start0, use_terminal_scroll0, bottom_overlay, force0, scroll_ok) ==
    LET inner_h == P.inner_h
        use_terminal_scroll == use_terminal_scroll0 /\ ~bottom_overlay
        resized == Len(P.inner_cache) # inner_h
        cache0 == IF resized THEN [r \in 1..inner_h |-> UnsetRow] ELSE P.inner_cache
        force == force0 \/ resized
        last == IF resized THEN <<>> ELSE P.preview_last_start
        content_h == content_h_of(inner_h, bottom_overlay)
        max_start == MaxOf(0, n - content_h)
        start == clamp(start0, 0, max_start)
        diff == IF last = <<>> THEN 0 ELSE start - last[1]
        absdiff == IF diff < 0 THEN 0 - diff ELSE diff
        Redraw(h) == [r \in 1..inner_h |-> IF r <= h THEN LineAt(n, start + r - 1) ELSE cache0[r]]
        apply_overlay(c) ==
            IF bottom_overlay /\ inner_h > 0 THEN [c EXCEPT ![inner_h] = OverlayRow] ELSE c
        down == [r \in 1..inner_h |->
                    IF r > content_h - diff /\ r <= content_h THEN LineAt(n, start + r - 1)
                    ELSE IF r + diff <= inner_h THEN cache0[r + diff]
                    ELSE BlankRow]
        up == [r \in 1..inner_h |->
                  IF r <= absdiff THEN LineAt(n, start + r - 1) ELSE cache0[r - absdiff]]
        cache1 ==
            IF ~use_terminal_scroll \/ force \/ last = <<>> \/ absdiff >= content_h
            THEN apply_overlay(Redraw(content_h))
            ELSE IF diff # 0
            THEN (IF ~scroll_ok THEN Redraw(inner_h)
                  ELSE IF diff > 0 THEN apply_overlay(down)
                  ELSE apply_overlay(up))
            ELSE apply_overlay(Redraw(content_h))
    IN  IF inner_h <= 0 THEN P
        ELSE [inner_h |-> inner_h, inner_cache |-> cache1, preview_last_start |-> <<start>>]

\* the states a pane is in before a frame: new, or drawn before for the
\* same lines at some scroll offset, with or without the overlay
PriorPanes(n, inner_h) ==
    {NewPane(inner_h)} \cup
    {draw_preview_lines(NewPane(inner_h), n, p, FALSE, o, TRUE, TRUE) : p \in 0..MaxLines, o \in BOOLEAN}

\* lines 1585-1596: one call of draw_preview_lines
InitPreview ==
    /\ InitProgram
    /\ \E n \in 0..MaxLines, inner_h \in 1..MaxInnerH :
           args \in [op : {"draw_preview_lines"}, n : {n}, pane : PriorPanes(n, inner_h),
                     start : -1..(MaxLines + 2), use_terminal_scroll : BOOLEAN,
                     bottom_overlay : BOOLEAN, force : BOOLEAN, scroll_ok : BOOLEAN]
    /\ ret = NoReturn

CallDrawPreviewLines ==
    /\ args.op = "draw_preview_lines"
    /\ Return(draw_preview_lines(args.pane, args.n, args.start, args.use_terminal_scroll,
                                 args.bottom_overlay, args.force, args.scroll_ok))

SpecPreview == InitPreview /\ [][CallDrawPreviewLines]_vars

\* the chat filter: texts of at most MaxFilterLen characters
MaxFilterLen == 2

FilterChars == {"c", "1", "(", "q"}

ChatFilters == UNION {[1..k -> FilterChars] : k \in 0..MaxFilterLen}

\* lines 1347-1368: the chat rows of a frame, for any chat filter and any
\* load state of the selected workspace
InitChatList ==
    /\ InitProgram
    /\ args \in [op : {"chat_list"}, chat_filter : ChatFilters, ws : Workspaces,
                  loading : BOOLEAN, error : BOOLEAN, chats : {<<>>} \cup ChatLists]
    /\ ret = NoReturn

CallChatList ==
    /\ args.op = "chat_list"
    /\ LET U == [chat_loading |-> IF args.loading THEN {args.ws} ELSE {},
                 chat_error |-> IF args.error THEN DictPut(EmptyDict, args.ws, "boom") ELSE EmptyDict]
       IN  Return(filter_items(chat_items_of(U, args.ws, args.chats), args.chat_filter))

SpecChatList == InitChatList /\ [][CallChatList]_vars

(***************************************************************************)
(* agent_store.py: message extraction from the blobs of a store            *)
(***************************************************************************)
\* rows of the blobs table and the limits of an extraction
MaxBlobs == 3

MaxMessages == 3

\* what the scan of one blob hands to _append, in order: the (role, text)
\* pairs of its embedded message objects (lines 303-316)
BlobContents ==
    {<<>>,
     <<<<"user", "a">>>>,
     <<<<"user", "a">>, <<"assistant", "b">>>>,
     <<<<"assistant", "b">>, <<"user", "a">>>>,
     <<<<"user", "a">>, <<"user", "a">>>>}

\* the blobs table, by rowid
Stores == UNION {[1..k -> BlobContents] : k \in 0..MaxBlobs}

\* an Optional[int]: <<>> is None
Opt(S) == {<<>>} \cup {<<k>> : k \in S}

\* the scan stops one message early
append_stops_early(st, pair, from_start, max_messages) ==
    IF st.stopped_early \/ pair \in st.seen THEN st
    ELSE IF st.out # <<>> /\ st.out[Len(st.out)] = pair THEN [st EXCEPT !.seen = @ \cup {pair}]
    ELSE [seen |-> st.seen \cup {pair}, out |-> Append(st.out, pair),
          stopped_early |-> from_start /\ max_messages # <<>> /\ Len(st.out) + 2 >= max_messages[1]]

\* _append, lines 250-263
append(st, pair, from_start, max_messages) ==
    IF st.stopped_early \/ pair \in st.seen THEN st
    ELSE IF st.out # <<>> /\ st.out[Len(st.out)] = pair THEN [st EXCEPT !.seen = @ \cup {pair}]
    ELSE [seen |-> st.seen \cup {pair}, out |-> Append(st.out, pair),
          stopped_early |-> from_start /\ max_messages # <<>> /\ Len(st.out) + 1 >= max_messages[1]]

\* lines 296-320: the scan of the rows, which ends once stopped_early is set
RECURSIVE scan(_, _, _, _)
scan(st, pairs, from_start, max_messages) ==
    IF pairs = <<>> \/ st.stopped_early THEN st
    ELSE scan(append(st, Head(pairs), from_start, max_messages), Tail(pairs), from_start, max_messages)

RECURSIVE Flatten(_)
Flatten(rows) == IF rows = <<>> THEN <<>> ELSE Head(rows) \o Flatten(Tail(rows))

\* Python slices out[:k] and out[-k:] for k >= 1
FirstK(out, k) == SubSeq(out, 1, IF k < Len(out) THEN k ELSE Len(out))

LastK(out, k) == SubSeq(out, IF k < Len(out) THEN Len(out) - k + 1 ELSE 1, Len(out))

\* _extract_messages_from_connection, lines 235-326
extract_messages(store, max_messages, max_blobs, from_start) ==
    IF max_messages # <<>> /\ max_messages[1] <= 0 THEN <<>>
    ELSE IF max_blobs # <<>> /\ max_blobs[1] <= 0 THEN <<>>
    ELSE LET rows == IF max_blobs = <<>> THEN store
                     ELSE IF from_start THEN FirstK(store, max_blobs[1])
                     ELSE LastK(store, max_blobs[1])
             st == scan([seen |-> {}, out |-> <<>>, stopped_early |-> FALSE],
                        Flatten(rows), from_start, max_messages)
         IN  IF max_messages = <<>> THEN st.out
             ELSE IF from_start THEN FirstK(st.out, max_messages[1])
             ELSE LastK(st.out, max_messages[1])

\* extract_recent_messages (lines 359-384) and extract_initial_messages
\* (lines 387-412) on a readable store
InitExtract ==
    /\ InitProgram
    /\ args \in [op : {"extract_messages"}, store : Stores,
                  max_messages : Opt(0..MaxMessages), max_blobs : Opt(1..MaxBlobs),
                  from_start : BOOLEAN]
    /\ ret = NoReturn

CallExtractMessages ==
    /\ args.op = "extract_messages"
    /\ Return(extract_messages(args.store, args.max_messages, args.max_blobs, args.from_start))

SpecExtract == InitExtract /\ [][CallExtractMessages]_vars

(***************************************************************************)
(* agent_store.py: the scan of a blob for embedded JSON objects            *)
(***************************************************************************)
\* the length of a blob and the cap on the objects yielded
MaxBuf == 5

MaxObjects == 2

\* the bytes of a blob that matter to the scan and to json.loads
Bytes == {"{", "}", "\"", "\\", ":"}

Buffers == UNION {[1..k -> Bytes] : k \in 0..MaxBuf}

\* bytes.find(b"{", i): the first offset >= i holding "{", or -1
find_brace(data, i) ==
    IF \E k \in i..(Len(data) - 1) : data[k + 1] = "{"
    THEN CHOOSE k \in i..(Len(data) - 1) :
             data[k + 1] = "{" /\ \A m \in i..(k - 1) : data[m + 1] # "{"
    ELSE -1

\* lines 179-207, the inner loop: the offset of the "}" that brings depth
\* back to 0, or -1 when the buffer ends first
RECURSIVE close_brace(_, _, _, _, _)
close_brace(data, j, depth, in_str, esc) ==
    IF j >= Len(data) THEN -1
    ELSE LET b == data[j + 1]
         IN  IF in_str
             THEN (IF esc THEN close_brace(data, j + 1, depth, TRUE, FALSE)
                   ELSE IF b = "\\" THEN close_brace(data, j + 1, depth, TRUE, TRUE)
                   ELSE IF b = "\"" THEN close_brace(data, j + 1, depth, FALSE, FALSE)
                   ELSE close_brace(data, j + 1, depth, TRUE, FALSE))
             ELSE IF b = "\"" THEN close_brace(data, j + 1, depth, TRUE, esc)
             ELSE IF b = "{" THEN close_brace(data, j + 1, depth + 1, FALSE, esc)
             ELSE IF b = "}"
             THEN (IF depth - 1 = 0 THEN j ELSE close_brace(data, j + 1, depth - 1, FALSE, esc))
             ELSE close_brace(data, j + 1, depth, FALSE, esc)

\* json.loads on these bytes: a string, or an object with no member or one
\* member; each returns the position after the value parsed at p, 0 if none
RECURSIVE json_string(_, _)
json_string(c, p) ==
    IF p > Len(c) THEN 0
    ELSE IF c[p] = "\"" THEN p + 1
    ELSE IF c[p] = "\\"
    THEN (IF p + 1 <= Len(c) /\ c[p + 1] \in {"\"", "\\"} THEN json_string(c, p + 2) ELSE 0)
    ELSE json_string(c, p + 1)

RECURSIVE json_value(_, _)
json_value(c, p) ==
    IF p > Len(c) THEN 0
    ELSE IF c[p] = "\"" THEN json_string(c, p + 1)
    ELSE IF c[p] # "{" THEN 0
    ELSE IF p + 1 <= Len(c) /\ c[p + 1] = "}" THEN p + 2
    ELSE IF p + 1 > Len(c) \/ c[p + 1] # "\"" THEN 0
    ELSE LET k == json_string(c, p + 2)
         IN  IF k = 0 \/ k > Len(c) \/ c[k] # ":" THEN 0
             ELSE LET v == json_value(c, k + 1)
                  IN  IF v = 0 \/ v > Len(c) \/ c[v] # "}" THEN 0 ELSE v + 1

\* lines 198-199: json.loads(chunk) returns a dict
is_json_dict(chunk) == chunk # <<>> /\ chunk[1] = "{" /\ json_value(chunk, 1) = Len(chunk) + 1

\* the scan before its first iteration, lines 166-168
NewScan == [i |-> 0, found |-> 0, yielded |-> <<>>, done |-> FALSE]

\* an object is yielded without being counted
scan_step_uncounted(st, data, max_objects) ==
    LET start == find_brace(data, st.i)
        j == close_brace(data, start, 0, FALSE, FALSE)
    IN  IF ~(st.i < Len(data)) \/ start = -1 THEN [st EXCEPT !.done = TRUE]
        ELSE IF j # -1 /\ is_json_dict(SubSeq(data, start + 1, j + 1))
        THEN [st EXCEPT !.yielded = Append(@, [start |-> start, end |-> j]), !.i = j + 1]
        ELSE [st EXCEPT !.i = start + 1]

\* _iter_embedded_json_objects, lines 169-210: one iteration of the outer
\* loop; a yielded object is recorded by the offsets of its first and
\* last byte
scan_step(st, data, max_objects) ==
    LET start == find_brace(data, st.i)
        j == close_brace(data, start, 0, FALSE, FALSE)
    IN  IF ~(st.i < Len(data) /\ st.found < max_objects) \/ start = -1
        THEN [st EXCEPT !.done = TRUE]
        ELSE IF j # -1 /\ is_json_dict(SubSeq(data, start + 1, j + 1))
        THEN [st EXCEPT !.yielded = Append(@, [start |-> start, end |-> j]),
                        !.found = @ + 1, !.i = j + 1]
        ELSE [st EXCEPT !.i = start + 1]

InitJsonScan ==
    /\ InitProgram
    /\ args \in [op : {"iter_embedded_json_objects"}, data : Buffers, max_objects : 1..MaxObjects]
    /\ ret = <<NewScan>>

IterEmbeddedJsonObjects ==
    /\ args.op = "iter_embedded_json_objects"
    /\ ~ret[1].done
    /\ ret' = <<scan_step(ret[1], args.data, args.max_objects)>>
    /\ UNCHANGED <<args, installVars, tuiVars, openVars>>

SpecJsonScan == InitJsonScan /\ [][IterEmbeddedJsonObjects]_vars /\ WF_vars(IterEmbeddedJsonObjects)

(***************************************************************************)
(* agent_store.py: read_chat_meta                                          *)
(***************************************************************************)
\* the rows of the meta table of a store
MaxMetaRows == 2

\* the texts a meta value holds: JSON of every type, text that is not
\* JSON, text that is itself an even run of hex digits, and no text
MetaTexts == {"{\"agentId\":\"a\"}", "{}", "[1]", "5", "\"s\"", "null", "{oops", "12", ""}

\* a meta value: the hex of the text, the text itself, or not a str; the
\* hex of no text is no text
MetaValues ==
    ([kind : {"hex", "plain"}, text : MetaTexts] \ {[kind |-> "hex", text |-> ""]})
        \cup {[kind |-> "bytes", text |-> ""]}

MetaKeys == {"0", "7", "agentId"}

MetaRows == [key : MetaKeys, value : MetaValues]

\* a store.db: no file, a file sqlite cannot read, a database without the
\* meta table, or a database with the rows of its meta table
MetaStores ==
    {[file |-> f, rows |-> <<>>] : f \in {"absent", "not_a_database", "no_meta_table"}}
        \cup {[file |-> "database", rows |-> r] : r \in UNION {[1..k -> MetaRows] : k \in 0..MaxMetaRows}}

\* Python's None, and the values json.loads returns
JNone == [t |-> "None", agentId |-> <<>>]

JDict(agent_id) == [t |-> "dict", agentId |-> agent_id]

JOther(t) == [t |-> t, agentId |-> <<>>]

\* json.loads: JNone stands for both null and a text that does not parse,
\* which _maybe_decode_hex_json turns into None
json_loads(text) ==
    CASE text = "{\"agentId\":\"a\"}" -> JDict(<<"a">>)
      [] text = "{}" -> JDict(<<>>)
      [] text = "[1]" -> JOther("list")
      [] text \in {"5", "12"} -> JOther("int")
      [] text = "\"s\"" -> JOther("str")
      [] OTHER -> JNone

\* the string sqlite hands back is an even run of hex digits: the hex
\* form of a text always, a plain text when it is one itself
IsHex(v) == v.kind = "hex" \/ v.text = "12"

\* _maybe_decode_hex_json, lines 58-70: "12" stored plain is unhexlified
\* to the byte 0x12, which is not JSON
maybe_decode_hex_json(v) ==
    IF v.kind = "plain" /\ v.text = "" THEN JNone
    ELSE IF IsHex(v) THEN (IF v.kind = "hex" THEN json_loads(v.text) ELSE JNone)
    ELSE json_loads(v.text)

IsStr(v) == v.kind # "bytes"

RowsWithKey(rows, k) == {n \in 1..Len(rows) : rows[n].key = k}

\* what read_chat_meta does: returns None, returns a meta, or raises
MetaNone == [kind |-> "None", agent_id |-> "", exc |-> ""]

MetaOf(agent_id) == [kind |-> "AgentChatMeta", agent_id |-> agent_id, exc |-> ""]

MetaRaises(exc) == [kind |-> "raises", agent_id |-> "", exc |-> exc]

\* lines 100-125 on a dict
meta_from_dict(agent_id) == IF agent_id = <<>> \/ agent_id[1] = "" THEN MetaNone ELSE MetaOf(agent_id[1])

\* lines 88-98: the fallback key-value map; a later row replaces an
\* earlier one of the same key, and a str value is the agent id as stored
fallback_obj(rows) ==
    LET ids == RowsWithKey(rows, "agentId")
        last == CHOOSE n \in ids : \A m \in ids : m <= n
    IN  IF ids = {} \/ ~IsStr(rows[last].value) THEN JDict(<<>>)
        ELSE JDict(<<IF rows[last].value.kind = "hex" THEN "hex" ELSE rows[last].value.text>>)

\* _read_chat_meta_from_connection, lines 73-125, on a readable meta table
read_chat_meta_from_connection(rows) ==
    LET zero == RowsWithKey(rows, "0")
        first == CHOOSE n \in zero : \A m \in zero : n <= m
        fast == IF zero # {} /\ IsStr(rows[first].value)
                THEN maybe_decode_hex_json(rows[first].value) ELSE JNone
        decoded == IF Len(rows) = 1 /\ IsStr(rows[1].value)
                   THEN maybe_decode_hex_json(rows[1].value) ELSE JNone
        meta_obj == IF fast # JNone THEN fast
                    ELSE IF decoded # JNone THEN decoded ELSE fallback_obj(rows)
    IN  IF fast = JNone /\ rows = <<>> THEN MetaNone
        ELSE IF meta_obj.t # "dict" THEN MetaRaises("AttributeError")
        ELSE meta_from_dict(meta_obj.agentId)

\* read_chat_meta, lines 128-136, through _with_ro_connection, lines
\* 32-55: a sqlite3.Error from either query ends in None
read_chat_meta(store) ==
    IF store.file # "database" THEN MetaNone
    ELSE read_chat_meta_from_connection(store.rows)

InitMeta ==
    /\ InitProgram
    /\ args \in [op : {"read_chat_meta"}, store : MetaStores]
    /\ ret = NoReturn

CallReadChatMeta ==
    /\ args.op = "read_chat_meta"
    /\ Return(read_chat_meta(args.store))

SpecMeta == InitMeta /\ [][CallReadChatMeta]_vars

(***************************************************************************)
(* agent_discovery.py: discover_agent_workspaces                           *)
(***************************************************************************)
\* the candidate paths handed to a discovery
MaxCandidates == 2

\* bucket names under the chats directory, and workspace paths
Hashes == {"h1", "h2"}

WsPaths == {"/a", "/b"}

\* what workspace_hash_candidates yields for a path: the hash of the
\* path, then the hash of its resolved form when that differs
HashCandidates == {<<h>> : h \in Hashes} \cup {hs \in Hashes \X Hashes : hs[1] # hs[2]}

Candidates == [path : WsPaths, hashes : HashCandidates]

CandidateLists == UNION {[1..k -> Candidates] : k \in 0..MaxCandidates}

\* the orders in which iterating the set hash_set yields the buckets
BucketOrders == {<<"h1", "h2">>, <<"h2", "h1">>}

\* st_mtime of a bucket directory; 0 is also what line 130 takes for a
\* directory that is gone
Mtimes == {0, 1}

\* the file system and the arguments of one discovery: whether the chats
\* directory exists, its buckets, the directories that exist, the
\* persisted map as load_workspace_map returns it (hash -> path or none),
\* the mtime of each bucket
Discoveries ==
    {d \in [chats_dir : BOOLEAN, buckets : SUBSET Hashes, dirs : SUBSET WsPaths,
            persisted : [Hashes -> Opt(WsPaths)], candidates : CandidateLists,
            order : BucketOrders, mtime : [Hashes -> Mtimes],
            include_unknown_hashes : BOOLEAN,
            exclude_missing_paths : BOOLEAN] :
        ~d.chats_dir => d.buckets = {}}

\* lines 81-92: only persisted paths that are existing directories count
persisted_paths(d) ==
    [h \in {g \in d.buckets : d.persisted[g] # <<>> /\ d.persisted[g][1] \in d.dirs} |->
        d.persisted[h][1]]

\* lines 118-124, the inner loop over the hashes of one candidate
RECURSIVE map_hashes(_, _, _, _)
map_hashes(st, p, hs, hash_set) ==
    IF hs = <<>> THEN st
    ELSE LET h == Head(hs)
             mapped == IF h \in hash_set /\ h \notin DOMAIN st.hash_to_path
                       THEN (h :> p) @@ st.hash_to_path ELSE st.hash_to_path
             ordered == IF h \in hash_set /\ \A n \in 1..Len(st.ordered_hashes) : st.ordered_hashes[n] # h
                        THEN Append(st.ordered_hashes, h) ELSE st.ordered_hashes
         IN  map_hashes([hash_to_path |-> mapped, ordered_hashes |-> ordered], p, Tail(hs), hash_set)

\* lines 118-124, the outer loop over the candidates
RECURSIVE map_candidates(_, _, _)
map_candidates(st, cands, hash_set) ==
    IF cands = <<>> THEN st
    ELSE map_candidates(map_hashes(st, Head(cands).path, Head(cands).hashes, hash_set),
                        Tail(cands), hash_set)

\* the remaining buckets come out by ascending mtime
RECURSIVE sort_remaining_ascending(_, _)
sort_remaining_ascending(hs, mtime) ==
    IF hs = <<>> THEN <<>>
    ELSE LET rest == sort_remaining_ascending(Tail(hs), mtime)
             Before(h) == mtime[h] < mtime[Head(hs)]
             NotBefore(h) == ~Before(h)
         IN  SelectSeq(rest, Before) \o <<Head(hs)>> \o SelectSeq(rest, NotBefore)

\* lines 129-132: list.sort by mtime with reverse=True, which is stable:
\* buckets of equal mtime keep the order they had
RECURSIVE sort_remaining(_, _)
sort_remaining(hs, mtime) ==
    IF hs = <<>> THEN <<>>
    ELSE LET rest == sort_remaining(Tail(hs), mtime)
             Before(h) == mtime[h] > mtime[Head(hs)]
             NotBefore(h) == ~Before(h)
         IN  SelectSeq(rest, Before) \o <<Head(hs)>> \o SelectSeq(rest, NotBefore)

AgentWorkspace(h, p) == [cwd_hash |-> h, workspace_path |-> p]

\* the filter of lines 140-153 is left out
discover_keeps_missing(d) ==
    LET st == map_candidates([hash_to_path |-> persisted_paths(d), ordered_hashes |-> <<>>],
                             d.candidates, d.buckets)
        Unseen(h) == h \in d.buckets /\ \A n \in 1..Len(st.ordered_hashes) : st.ordered_hashes[n] # h
        ordered_hashes == st.ordered_hashes \o sort_remaining(SelectSeq(d.order, Unseen), d.mtime)
        out == [n \in 1..Len(ordered_hashes) |->
                   AgentWorkspace(ordered_hashes[n],
                                  IF ordered_hashes[n] \in DOMAIN st.hash_to_path
                                  THEN <<st.hash_to_path[ordered_hashes[n]]>> ELSE <<>>)]
        Known(w) == w.workspace_path # <<>>
    IN  IF ~d.chats_dir THEN <<>>
        ELSE IF d.include_unknown_hashes THEN out ELSE SelectSeq(out, Known)

\* discover_agent_workspaces, lines 56-157
discover_agent_workspaces(d) ==
    LET st == map_candidates([hash_to_path |-> persisted_paths(d), ordered_hashes |-> <<>>],
                             d.candidates, d.buckets)
        Unseen(h) == h \in d.buckets /\ \A n \in 1..Len(st.ordered_hashes) : st.ordered_hashes[n] # h
        ordered_hashes == st.ordered_hashes \o sort_remaining(SelectSeq(d.order, Unseen), d.mtime)
        out == [n \in 1..Len(ordered_hashes) |->
                   AgentWorkspace(ordered_hashes[n],
                                  IF ordered_hashes[n] \in DOMAIN st.hash_to_path
                                  THEN <<st.hash_to_path[ordered_hashes[n]]>> ELSE <<>>)]
        Kept(w) == w.workspace_path = <<>> \/ w.workspace_path[1] \in d.dirs
        Known(w) == w.workspace_path # <<>>
        kept == IF d.exclude_missing_paths THEN SelectSeq(out, Kept) ELSE out
    IN  IF ~d.chats_dir THEN <<>>
        ELSE IF d.include_unknown_hashes THEN kept ELSE SelectSeq(kept, Known)

InitDiscover ==
    /\ InitProgram
    /\ args \in [op : {"discover_agent_workspaces"}, d : Discoveries]
    /\ ret = NoReturn

CallDiscoverAgentWorkspaces ==
    /\ args.op = "discover_agent_workspaces"
    /\ Return(discover_agent_workspaces(args.d))

SpecDiscover == InitDiscover /\ [][CallDiscoverAgentWorkspaces]_vars

(***************************************************************************)
(* agent_patching.py: patch_cursor_agent_models                            *)
(***************************************************************************)
\* the *.index.js files of the versions directory, as sorted at lines
\* 283-285: by version directory, then by name
BundleFiles == <<"v1/a.index.js", "v2/b.index.js">>

\* what a bundle holds where _RE_FETCH_USABLE_BLOCK looks: no
\* fetchUsableModels block, a block that names no enumeration call, a call
\* without an argument, a call with one, the block this patch writes
BlockKinds == {"none", "no_call", "no_arg", "call", "patched"}

\* a bundle's text: whether _PATCH_MARKER occurs in it, and its block
BundleTexts == [marker : BOOLEAN, block : BlockKinds]

NoBackup == [marker |-> FALSE, block |-> "no backup"]

\* what the file system does with a bundle: read_text succeeds or not;
\* write_text succeeds, fails on open, or fails after truncating the
\* file; the backup can be created or not
FileModes == [read : BOOLEAN, write : {"ok", "denied", "truncated"}, backup : BOOLEAN]

\* the versions directory: whether it can be listed, the texts of its
\* bundles, their .ccm.bak files, and how each file behaves
VersionDirs ==
    [listable : BOOLEAN,
     text : [1..Len(BundleFiles) -> BundleTexts],
     bak : [1..Len(BundleFiles) -> {NoBackup, [marker |-> FALSE, block |-> "call"]}],
     mode : [1..Len(BundleFiles) -> FileModes]]

\* PatchReport, lines 128-139
NewReport ==
    [scanned_files |-> 0, patched_files |-> <<>>, skipped_already_patched |-> 0,
     skipped_not_applicable |-> 0, errors |-> <<>>]

\* the replacement block carries no marker
patch_block_unmarked(txt) ==
    IF txt.block \in {"call", "patched"} THEN <<[marker |-> FALSE, block |-> "patched"]>> ELSE <<>>

\* lines 301-315 with _patch_fetch_usable_models_block, lines 215-261, on
\* a text without the marker: the new text, or none when the block is
\* missing, names no call or has no argument; the new block ends with the
\* marker comment
patch_block(txt) ==
    IF txt.block \in {"call", "patched"} THEN <<[marker |-> TRUE, block |-> "patched"]>> ELSE <<>>

TruncatedText == [marker |-> FALSE, block |-> "none"]

\* the dry-run test of line 317 is missing
patch_file_ignores_dry_run(st, n, dry_run) ==
    LET vd == st.vd
        rep == [st.rep EXCEPT !.scanned_files = @ + 1]
        txt == vd.text[n]
        new == patch_block(txt)
        bak == IF vd.bak[n] = NoBackup /\ vd.mode[n].backup THEN txt ELSE vd.bak[n]
        f == BundleFiles[n]
    IN  IF ~vd.mode[n].read
        THEN [st EXCEPT !.rep = [rep EXCEPT !.errors = Append(@, f)]]
        ELSE IF txt.marker
        THEN [st EXCEPT !.rep = [rep EXCEPT !.skipped_already_patched = @ + 1]]
        ELSE IF new = <<>>
        THEN [st EXCEPT !.rep = [rep EXCEPT !.skipped_not_applicable = @ + 1]]
        ELSE IF vd.mode[n].write = "ok"
        THEN [vd |-> [vd EXCEPT !.bak[n] = bak, !.text[n] = new[1]],
              rep |-> [rep EXCEPT !.patched_files = Append(@, f)]]
        ELSE [vd |-> [vd EXCEPT !.bak[n] = bak,
                                !.text[n] = IF vd.mode[n].write = "truncated" THEN TruncatedText ELSE @],
              rep |-> [rep EXCEPT !.errors = Append(@, f)]]

\* lines 289-345: one bundle file
patch_file(st, n, dry_run) ==
    LET vd == st.vd
        rep == [st.rep EXCEPT !.scanned_files = @ + 1]
        txt == vd.text[n]
        new == patch_block(txt)
        bak == IF vd.bak[n] = NoBackup /\ vd.mode[n].backup THEN txt ELSE vd.bak[n]
        f == BundleFiles[n]
    IN  IF ~vd.mode[n].read
        THEN [st EXCEPT !.rep = [rep EXCEPT !.errors = Append(@, f)]]
        ELSE IF txt.marker
        THEN [st EXCEPT !.rep = [rep EXCEPT !.skipped_already_patched = @ + 1]]
        ELSE IF new = <<>> \/ new[1] = txt
        THEN [st EXCEPT !.rep = [rep EXCEPT !.skipped_not_applicable = @ + 1]]
        ELSE IF dry_run
        THEN [st EXCEPT !.rep = [rep EXCEPT !.patched_files = Append(@, f)]]
        ELSE IF vd.mode[n].write = "ok"
        THEN [vd |-> [vd EXCEPT !.bak[n] = bak, !.text[n] = new[1]],
              rep |-> [rep EXCEPT !.patched_files = Append(@, f)]]
        ELSE [vd |-> [vd EXCEPT !.bak[n] = bak,
                                !.text[n] = IF vd.mode[n].write = "truncated" THEN TruncatedText ELSE @],
              rep |-> [rep EXCEPT !.errors = Append(@, f)]]

RECURSIVE patch_files(_, _, _)
patch_files(st, n, dry_run) ==
    IF n > Len(BundleFiles) THEN st ELSE patch_files(patch_file(st, n, dry_run), n + 1, dry_run)

\* patch_cursor_agent_models, lines 264-347: the directory it leaves and
\* the report it returns
patch_cursor_agent_models(vd, dry_run) ==
    IF ~vd.listable
    THEN [vd |-> vd, rep |-> [NewReport EXCEPT !.errors = <<"versions">>]]
    ELSE patch_files([vd |-> vd, rep |-> NewReport], 1, dry_run)

InitPatch ==
    /\ InitProgram
    /\ args \in [op : {"patch_cursor_agent_models"}, versions_dir : VersionDirs, dry_run : BOOLEAN]
    /\ ret = NoReturn

\* the first run
CallPatchCursorAgentModels ==
    /\ args.op = "patch_cursor_agent_models"
    /\ Return(patch_cursor_agent_models(args.versions_dir, args.dry_run))

\* a second run over the directory the first one left
CallPatchCursorAgentModelsAgain ==
    /\ args.op = "patch_cursor_agent_models"
    /\ Len(ret) = 1
    /\ ret' = Append(ret, patch_cursor_agent_models(ret[1].vd, args.dry_run))
    /\ UNCHANGED <<args, installVars, tuiVars, openVars>>

SpecPatch == InitPatch /\ [][CallPatchCursorAgentModels \/ CallPatchCursorAgentModelsAgain]_vars

(***************************************************************************)
(* tui.py: chat titles and the title cache                                 *)
(***************************************************************************)
\* the lines of a history text
MaxHistoryLines == 3

HistoryLines == {"User:", "", "<user_query>", "fix bug", "New Chat"}

Histories == UNION {[1..k -> HistoryLines] : k \in 0..MaxHistoryLines}

ChatNames == {"Untitled", "New Chat", "", "My chat"}

\* agent_title_cache.is_generic_chat_name: the placeholder names
is_generic_chat_name(name) == name \in {"Untitled", "New Chat", ""}

\* _derive_title_from_history, lines 242-266: the first line after the
\* first "User:" line that is neither empty nor a tag
derive_title_from_history(lines) ==
    LET users == {i \in 1..Len(lines) : lines[i] = "User:"}
        i == CHOOSE u \in users : \A v \in users : u <= v
        cands == {j \in (i + 1)..Len(lines) : lines[j] # "" /\ lines[j] # "<user_query>"}
    IN  IF users = {} \/ cands = {} THEN <<>>
        ELSE <<lines[CHOOSE j \in cands : \A k \in cands : j <= k]>>

\* the title cache of a session: whether lines 1212-1219 loaded one, the
\* title it holds for the chat, and the saves of this session
TitleCaches == [loaded : BOOLEAN, title : Opt({"Cached title"}), saves : {0}]

\* agent_title_cache.set_cached_title and save_chat_title_cache: the
\* upsert of a title that is not blank, then the write of the file
set_and_save(cache, title) ==
    IF title = "" THEN [cache EXCEPT !.saves = @ + 1]
    ELSE [cache EXCEPT !.title = <<title>>, !.saves = @ + 1]

\* the chat of the only workspace, as load_chats returns it
TitledChats == [name : ChatNames, latest_root_blob_id : BOOLEAN]

\* lines 1274-1279 and 1356-1359: the loaded list goes into chat_cache as
\* it is, and the row shows the chat's name
chats_loaded(chat, title_cache) == [chat_cache |-> chat, label |-> chat.name, title_cache |-> title_cache]

\* lines 1398-1474 of a frame whose selected row is the chat; msg says
\* that the workspace has a message of its own (line 1383); role and text
\* are what the preview cache holds for the chat (text <<>> for None),
\* asked for only if the chat has a root blob (line 1407)
frame_title(st, msg, role, text) ==
    LET chat == st.chat_cache
        derived == IF chat.latest_root_blob_id /\ role = "history" /\ text # <<>>
                      /\ is_generic_chat_name(chat.name)
                   THEN derive_title_from_history(text[1]) ELSE <<>>
        new_name == IF derived # <<>> /\ derived[1] # "" THEN derived[1] ELSE chat.name
        persist == st.title_cache.loaded /\ new_name # "" /\ ~is_generic_chat_name(new_name)
    IN  IF msg THEN st
        ELSE [chat_cache |-> [chat EXCEPT !.name = new_name],
              label |-> new_name,
              title_cache |-> IF persist THEN set_and_save(st.title_cache, new_name) ELSE st.title_cache]

InitTitle ==
    /\ InitProgram
    /\ args \in [op : {"select_chat_titles"}, chat : TitledChats, title_cache : TitleCaches,
                 msg : BOOLEAN, role : {"None", "history", "assistant"},
                 text : Opt(Histories)]
    /\ ret = NoReturn

\* the chat list of the workspace arrives
CallChatsLoaded ==
    /\ args.op = "select_chat_titles"
    /\ Return(chats_loaded(args.chat, args.title_cache))

\* a frame with the chat selected
CallFrameTitle ==
    /\ args.op = "select_chat_titles"
    /\ Len(ret) = 1
    /\ ret' = Append(ret, frame_title(ret[1], args.msg, args.role, args.text))
    /\ UNCHANGED <<args, installVars, tuiVars, openVars>>

SpecTitle == InitTitle /\ [][CallChatsLoaded \/ CallFrameTitle]_vars

(***************************************************************************)
(* tui.py: _hydrate_generic_titles                                         *)
(***************************************************************************)
\* the chats of a list and the max_items of a call
MaxHydrateChats == 2

MaxHydrateItems == 2

HydrateIds == {"c1", "c2"}

HydrateChats == [chat_id : HydrateIds, name : {"Untitled", "My chat"}, latest_root_blob_id : BOOLEAN]

HydrateLists == UNION {[1..k -> HydrateChats] : k \in 0..MaxHydrateChats}

\* what get_preview returns: no preview, a history with a title in it, a
\* history without one
HydratePreviews ==
    {[role |-> "None", text |-> <<>>],
     [role |-> "history", text |-> <<"User:", "fix bug">>],
     [role |-> "history", text |-> <<"fix bug">>]}

\* the clock: -1 for a budget_s that is not positive, otherwise how many
\* times the test of line 295 finds the budget not yet used up
HydrateClocks == -1..(MaxHydrateChats + 1)

\* a chat already in done_ids is handed to get_preview again
hydrate_step_ignores_done(st, max_items, preview) ==
    LET c == st.chats[st.i + 1]
        derived == IF preview.role = "history" THEN derive_title_from_history(preview.text) ELSE <<>>
        new_name == IF derived # <<>> /\ derived[1] # "" THEN derived[1] ELSE c.name
    IN  IF ~c.latest_root_blob_id \/ ~is_generic_chat_name(c.name)
        THEN [st EXCEPT !.done_ids = @ \cup {c.chat_id}, !.i = @ + 1, !.clock = @ - 1]
        ELSE [st EXCEPT !.calls = Append(@, [chat_id |-> c.chat_id, done |-> c.chat_id \in st.done_ids]),
                        !.chats[st.i + 1].name = new_name,
                        !.done_ids = @ \cup {c.chat_id},
                        !.updates = IF new_name # "" /\ new_name # c.name /\ ~is_generic_chat_name(new_name)
                                    THEN Append(@, <<c.chat_id, new_name>>) ELSE @,
                        !.processed = @ + 1, !.i = @ + 1, !.clock = @ - 1]

\* lines 297-327: one iteration of the loop that got past its two breaks;
\* `calls` records each call of get_preview and whether the chat's id was
\* in done_ids at that moment
hydrate_step(st, max_items, preview) ==
    LET c == st.chats[st.i + 1]
        derived == IF preview.role = "history" THEN derive_title_from_history(preview.text) ELSE <<>>
        new_name == IF derived # <<>> /\ derived[1] # "" THEN derived[1] ELSE c.name
    IN  IF c.chat_id \in st.done_ids
        THEN [st EXCEPT !.i = @ + 1, !.clock = @ - 1]
        ELSE IF ~c.latest_root_blob_id \/ ~is_generic_chat_name(c.name)
        THEN [st EXCEPT !.done_ids = @ \cup {c.chat_id}, !.i = @ + 1, !.clock = @ - 1]
        ELSE [st EXCEPT !.calls = Append(@, [chat_id |-> c.chat_id, done |-> c.chat_id \in st.done_ids]),
                        !.chats[st.i + 1].name = new_name,
                        !.done_ids = @ \cup {c.chat_id},
                        !.updates = IF new_name # "" /\ new_name # c.name /\ ~is_generic_chat_name(new_name)
                                    THEN Append(@, <<c.chat_id, new_name>>) ELSE @,
                        !.processed = @ + 1, !.i = @ + 1, !.clock = @ - 1]

\* lines 292-296: the loop and its breaks
RECURSIVE hydrate_loop(_, _, _)
hydrate_loop(st, max_items, preview) ==
    IF ~(st.i < Len(st.chats)) \/ st.processed >= max_items \/ st.clock <= 0 THEN st
    ELSE hydrate_loop(hydrate_step(st, max_items, preview), max_items, preview)

\* _hydrate_generic_titles, lines 269-330
hydrate_generic_titles(chats, preview, done_ids, start_idx, max_items, clock) ==
    LET st == [chats |-> chats, done_ids |-> done_ids, processed |-> 0, updates |-> <<>>,
               calls |-> <<>>, clock |-> clock, i |-> start_idx]
    IN  IF max_items <= 0 \/ clock < 0 THEN st
        ELSE hydrate_loop([st EXCEPT !.i = clamp(start_idx, 0, MaxOf(0, Len(chats)))], max_items, preview)

InitHydrate ==
    /\ InitProgram
    /\ args \in [op : {"hydrate_generic_titles"}, chats : HydrateLists, preview : HydratePreviews,
                 done_ids : SUBSET HydrateIds, start_idx : -1..(MaxHydrateChats + 1),
                 max_items : 0..MaxHydrateItems, clock : HydrateClocks]
    /\ ret = NoReturn

CallHydrateGenericTitles ==
    /\ args.op = "hydrate_generic_titles"
    /\ Return(hydrate_generic_titles(args.chats, args.preview, args.done_ids, args.start_idx,
                                     args.max_items, args.clock))

SpecHydrate == InitHydrate /\ [][CallHydrateGenericTitles]_vars





Init == InitProgram /\ args = NoCall /\ ret = NoReturn

\* The render loop and the update check threads while no loader thread is
\* scheduled: the loader threads write none of the update check variables
\* and the loop never waits for them.
NextUpdate ==
    \/ LoopInit
    \/ LoopTop
    \/ \E ws \in Workspaces \cup {"None"}, sel \in ChatIds \cup {"None"}, f \in BOOLEAN : Draw(ws, sel, f)
    \/ Wait
    \/ \E ev \in {"timeout", "key", "q"} : Getch(ev)
    \/ \E i \in 1..(MaxTicks + 1), st \in {UpToDate, Available, CheckFailed} : UpdateCheckRun(i, st)
    \/ \E i \in 1..(MaxTicks + 1) : UpdateCheckFinally(i)
    \/ Tick

\* select_chat with its keyboard handling and the update check thread;
\* no worker of the loader gets to run
NextKeys ==
    \/ LoopInit
    \/ LoopTop
    \/ \E lay \in Layouts : Frame(lay)
    \/ Wait
    \/ GetchTimeout
    \/ \E ch \in Keys : Key(ch, NoMouse)
    \/ \E i \in 1..(MaxTicks + 1), st \in {UpToDate, Available, CheckFailed} : UpdateCheckRun(i, st)
    \/ \E i \in 1..(MaxTicks + 1) : UpdateCheckFinally(i)

\* the keys that move a selection, open it, change the focus or edit a filter
ListKeys == NavKeys \cup {"KEY_ENTER", "TAB", "KEY_LEFT", "KEY_RIGHT", "/", "q", "ESC", "KEY_BACKSPACE"}

\* select_chat with its lists, the keyboard and the mouse; neither a worker
\* of the loader nor the update check thread gets to run
NextMouse ==
    \/ LoopInit
    \/ LoopTop
    \/ \E lay \in Layouts : Frame(lay)
    \/ Wait
    \/ GetchTimeout
    \/ \E ch \in ListKeys : Key(ch, NoMouse)
    \/ \E m \in MouseEvents : Key("KEY_MOUSE", m)

\* the keys that open a row of the chat list
OpenKeys == {"KEY_UP", "KEY_DOWN", "TAB", "KEY_ENTER"}

\* select_chat with the loader's workers: chat lists and previews arrive
\* or fail while rows are selected and opened
NextLists ==
    \/ LoopInit
    \/ LoopTop
    \/ \E lay \in Layouts : Frame(lay)
    \/ Wait
    \/ GetchTimeout
    \/ \E ch \in OpenKeys : Key(ch, NoMouse)
    \/ \E i \in 1..MaxRequests, v \in ChatLists \cup Previews : CallbackReturns(i, v)
    \/ \E i \in 1..MaxRequests, e \in Errors : CallbackRaises(i, e)
    \/ \E i \in 1..MaxRequests : PutResult(i)
    \/ \E i \in 1..MaxRequests : FinallyDiscard(i)

SpecInstall == Init /\ [][NextInstall]_vars

(***************************************************************************)
(* _install_lock when its holder dies: the finally block of lines 174-180  *)
(* is all that removes <root>/.ccm.lock, and owner.txt (lines 160-163) is   *)
(* written and never read.                                                  *)
(***************************************************************************)
\* the owner of a lock directory whose creating process no longer exists
KilledOwner == "killed"

\* the process is killed between lock_dir.mkdir() and the rmtree of the
\* finally block: nothing of lines 174-180 runs, the lock directory stays;
\* a later call made from this slot is a call of a new process
Kill(p) ==
    /\ InCritical(p)
    /\ lock_dir' = KilledOwner
    /\ pc' = [pc EXCEPT ![p] = "idle"]
    /\ tag' = [tag EXCEPT ![p] = "v1"]
    /\ bin_dir' = [bin_dir EXCEPT ![p] = OutsideBin]
    /\ sumcheck' = [sumcheck EXCEPT ![p] = "none"]
    /\ err' = [err EXCEPT ![p] = NoErr]
    /\ wrote' = [wrote EXCEPT ![p] = {}]
    /\ changed' = [changed EXCEPT ![p] = {}]
    /\ UNCHANGED <<dirs, versions, tmp_dir, symlink>>
    /\ UNCHANGED <<tuiVars, openVars, pureVars>>

\* somebody removes the left-over <root>/.ccm.lock by hand
RemoveLockDir ==
    /\ lock_dir = KilledOwner
    /\ lock_dir' = NoOwner
    /\ UNCHANGED <<dirs, versions, tmp_dir, symlink, callVars>>
    /\ UNCHANGED <<tuiVars, openVars, pureVars>>

\* the steps of the installing process p, for verified archives of one tag
InstallStep(p) ==
    \/ \E t \in Tags : Begin(p, t, OutsideBin, TRUE, "match")
    \/ AcquireLock(p)
    \/ CheckBinDir(p)
    \/ MakeTmpDir(p)
    \/ \E c \in Payloads : Extract(p, "good", c)
    \/ \E ok \in BOOLEAN : ReplaceVersion(p, ok)
    \/ LinkCurrent(p)
    \/ LinkBin(p)
    \/ LinkAlias(p)
    \/ Cleanup(p)
    \/ ReleaseLock(p)
    \/ Finish(p)

\* installs during which a process may be killed and a left-over lock
\* directory may be removed by hand
NextCrash ==
    \/ \E p \in Procs, t \in Tags : Begin(p, t, OutsideBin, TRUE, "match")
    \/ \E p \in Procs : AcquireLock(p)
    \/ \E p \in Procs : CheckBinDir(p)
    \/ \E p \in Procs : MakeTmpDir(p)
    \/ \E p \in Procs, c \in Payloads : Extract(p, "good", c)
    \/ \E p \in Procs, ok \in BOOLEAN : ReplaceVersion(p, ok)
    \/ \E p \in Procs : LinkCurrent(p)
    \/ \E p \in Procs : LinkBin(p)
    \/ \E p \in Procs : LinkAlias(p)
    \/ \E p \in Procs : Cleanup(p)
    \/ \E p \in Procs : ReleaseLock(p)
    \/ \E p \in Procs : Finish(p)
    \/ \E p \in Procs : Kill(p)
    \/ RemoveLockDir

\* every process keeps installing; nothing obliges anybody to kill a
\* process or to remove a lock directory by hand
SpecCrash == Init /\ [][NextCrash]_vars /\ \A p \in Procs : WF_vars(InstallStep(p))

SpecUpdate == Init /\ [][NextUpdate]_vars

SpecCli == Init /\ [][NextCli]_vars

SpecKeys == Init /\ [][NextKeys]_vars

SpecMouse == Init /\ [][NextMouse]_vars

SpecLists == Init /\ [][NextLists]_vars

SpecLoader == Init /\ [][NextLoader]_vars

SpecLoop == Init /\ [][NextLoop]_vars

\* every started worker thread keeps running: the callbacks end and the
\* scheduler runs each thread
SpecLoaderFair == SpecLoader /\ \A i \in 1..MaxRequests : WF_vars(WorkerStep(i))

\* the render loop and the loader's workers with nobody at the keyboard:
\* getch() returns only when its timeout expires
RenderStep ==
    \/ LoopInit
    \/ LoopTop
    \/ \E ws \in LoopWorkspaces, sel \in ChatIds \cup {"None"}, f \in BOOLEAN : Draw(ws, sel, f)
    \/ Wait
    \/ GetchTimeout

NextPoll ==
    \/ LoopInit
    \/ LoopTop
    \/ \E ws \in LoopWorkspaces, sel \in ChatIds \cup {"None"}, f \in BOOLEAN : Draw(ws, sel, f)
    \/ Wait
    \/ GetchTimeout
    \/ \E i \in 1..MaxRequests, v \in ChatLists \cup Previews : CallbackReturns(i, v)
    \/ \E i \in 1..MaxRequests, e \in Errors : CallbackRaises(i, e)
    \/ \E i \in 1..MaxRequests : PutResult(i)
    \/ \E i \in 1..MaxRequests : FinallyDiscard(i)

\* the render loop keeps running (a getch() with a timeout returns), every
\* started worker thread keeps running and its callback ends
SpecPoll ==
    /\ Init /\ [][NextPoll]_vars
    /\ WF_vars(RenderStep)
    /\ \A i \in 1..MaxRequests : WF_vars(WorkerStep(i))

(***************************************************************************)
(* Properties of the background loader and of the render loop's wait       *)
(***************************************************************************)
\* thread i has been started and _run has not reached the end of its finally
Live(i) == i \in 1..Len(threads) /\ threads[i].st # "done"

InflightOf(cat) ==
    CASE cat = "chats" -> chats_inflight
      [] cat = "preview_snippet" -> preview_snippet_inflight
      [] OTHER -> preview_full_inflight

\* C2: within one request category and one key at most one worker thread is
\* running at any time, and a running thread's key is in its in-flight set.
C2_OneInFlightPerKey ==
    /\ \A i, j \in 1..Len(threads) :
          (i # j /\ Live(i) /\ Live(j) /\ threads[i].cat = threads[j].cat)
              => threads[i].key # threads[j].key
    /\ \A i \in 1..Len(threads) : Live(i) => threads[i].key \in InflightOf(threads[i].cat)

\* a key was requested again after its first load finished, while another
\* key of the same category is still loading and a result waits in the queue
C2_Witness ==
    \E i, j, k \in 1..Len(threads) :
        /\ i < j /\ threads[i].cat = threads[j].cat /\ threads[i].cat = threads[k].cat
        /\ threads[i].key = threads[j].key /\ threads[k].key # threads[i].key
        /\ threads[i].st = "done" /\ threads[j].st = "run" /\ Live(k)
        /\ q # <<>>

OkKind(cat) ==
    CASE cat = "chats" -> "chats_ok"
      [] cat = "preview_snippet" -> "preview_snippet_ok"
      [] OTHER -> "preview_full_ok"

ErrKind(cat) ==
    CASE cat = "chats" -> "chats_err"
      [] cat = "preview_snippet" -> "preview_snippet_err"
      [] OTHER -> "preview_full_err"

\* a thread puts nothing while the callback runs and has put exactly one
\* message once it is past the put
C3_OneMessage ==
    \A i \in 1..Len(threads) :
        /\ threads[i].st \in {"run", "called"} => threads[i].nput = 0
        /\ threads[i].st \in {"put", "done"} => threads[i].nput = 1

\* the step that leaves the callback appends one message to the queue: *_ok
\* with the returned value, or *_err with the text of the error
C3_MessageMatches ==
    \A i \in 1..Len(threads) :
        (threads[i].st = "called" /\ threads'[i].st # "called") =>
            /\ Len(q') = Len(q) + 1
            /\ SubSeq(q', 1, Len(q)) = q
            /\ LET m == q'[Len(q')]
                   t == threads[i]
               IN  /\ m[1] = IF t.out[1] = "ret" THEN OkKind(t.cat) ELSE ErrKind(t.cat)
                   /\ m[Len(m)] = t.out[2]
                   /\ IF t.cat = "preview_snippet" THEN <<m[2], m[3]>> = t.key ELSE m[2] = t.key

\* C3: every accepted request puts exactly one message on the result queue,
\* *_ok when the callback returned and *_err with the error text when it
\* raised, and every worker thread comes to its end having done so.
C3_EveryRequestAnswered ==
    /\ []C3_OneMessage
    /\ [][C3_MessageMatches]_vars
    /\ \A i \in 1..MaxRequests :
          (Len(threads) >= i) ~> (Len(threads) >= i /\ threads[i].st = "done" /\ threads[i].nput = 1)

\* one request ended after its callback raised, another after it returned
C3_Witness ==
    \E i, j \in 1..Len(threads) :
        /\ threads[i].st = "done" /\ threads[i].nput = 1
        /\ threads[j].st = "called" /\ threads[j].out[1] = "exc"
        /\ q # <<>> /\ q[1][1] \in {"chats_err", "preview_snippet_err", "preview_full_err"}

\* C10 (as claimed): whenever the loop sets the input timeout, it is 80 ms if
\* a loader request is outstanding or an update check is in progress, and
\* blocking only if neither is the case.
C10_WaitPollsWhileBusy ==
    [][ (ui_pc = "wait" /\ ui_pc' = "getch") =>
            timeout' = IF has_pending \/ update_checking THEN PollMs ELSE Block ]_vars

(***************************************************************************)
(* Properties of cmd_tui, the flag probe and the launch                    *)
(***************************************************************************)
LastRun == tui_runs[Len(tui_runs)]

FailedUpgradeRun == [out |-> "update_requested", upgrade |-> "failed"]

\* C14: _run_tui is invoked again only after an UpdateRequested whose upgrade
\* failed; after a normal return it is not invoked again, and a quit ends
\* cmd_tui with exit status 0.
C14_TuiRunsAgainOnlyAfterFailedUpgrade ==
    /\ \A k \in 1..(Len(tui_runs) - 1) : tui_runs[k] = FailedUpgradeRun
    /\ (cli_pc = "loop" /\ tui_runs # <<>>) => LastRun = FailedUpgradeRun
    /\ (tui_runs # <<>> /\ LastRun.out = "quit") =>
           /\ cli_pc \in {"selected", "exit"}
           /\ cli_pc = "exit" => cli_rc = 0

\* the TUI asked for an upgrade that failed, ran again, and the user quit
C14_Witness ==
    /\ Len(tui_runs) = 2 /\ tui_runs[1] = FailedUpgradeRun /\ tui_runs[2].out = "quit"
    /\ cli_pc = "exit" /\ cli_rc = 0

\* C18: however many calls of start_cursor_agent_flag_probe are made, from
\* however many threads, at most one probe thread is ever started.
C18_AtMostOneProbe == Len(probes) <= 1

\* both threads have called, one of them twice, all calls are over and one
\* probe thread exists
C18_Witness ==
    /\ probe_calls["main"] = 1 /\ probe_calls["t1"] >= 2
    /\ \A c \in Threads : probe_pc[c] = "idle"
    /\ Len(probes) = 1

\* C19: get_cursor_agent_flags returns the default list as long as no probe
\* has completed successfully, also after a probe has failed, and the probed
\* subset once a probe has completed successfully.
C19_FlagsFollowProbe ==
    /\ (\A i \in 1..Len(probes) : probes[i].st # "ok") =>
           get_cursor_agent_flags = DEFAULT_CURSOR_AGENT_FLAGS
    /\ \A i \in 1..Len(probes) :
           probes[i].st = "ok" =>
               /\ get_cursor_agent_flags = probes[i].flags
               /\ \A k \in 1..Len(probes[i].flags) :
                      \E d \in 1..Len(DEFAULT_CURSOR_AGENT_FLAGS) :
                          probes[i].flags[k] = DEFAULT_CURSOR_AGENT_FLAGS[d]

\* a chat was launched with the two flags a completed probe found
C19_Witness ==
    /\ probes # <<>> /\ probes[1].st = "ok"
    /\ get_cursor_agent_flags = <<"--approve-mcps", "--browser">>
    /\ cli_pc = "launched"
    /\ execs = << <<"cursor-agent", "--workspace", "ws", "--approve-mcps", "--browser",
                    "--resume", "c1">> >>

\* a probe ended without a result and the default list is still returned
C19_WitnessFailed ==
    /\ probes # <<>> /\ probes[1].st \in {"no_agent", "raised", "nonzero"}
    /\ get_cursor_agent_flags = DEFAULT_CURSOR_AGENT_FLAGS

\* C20 (as claimed): a launch with --force that cursor-agent rejects because
\* 'Run Everything' is disabled is followed by exactly one more launch, of
\* the same command without --force and -f; any other launch is not retried.
C20_RetriesOnceWithoutForce ==
    cli_pc = "launched" =>
        IF HasForce(execs[1]) /\ agent_reply = "run_everything_disabled"
        THEN Len(execs) = 2 /\ execs[2] = without_force_flag(execs[1])
        ELSE Len(execs) = 1

(***************************************************************************)
(* Properties of the update check inside the render loop                   *)
(***************************************************************************)
\* C16: at most one update check thread is running at any time, and each
\* check after the first is started at least 300 seconds after the check
\* before it was started.
C16_OneCheckEveryFiveMinutes ==
    /\ Cardinality({i \in 1..Len(upd_threads) : upd_threads[i].st # "done"}) <= 1
    /\ \A i \in 2..Len(upd_threads) :
           upd_threads[i].at - upd_threads[i - 1].at >= UpdateIntervalS

\* the forced check is over and a second check is running
C16_Witness ==
    /\ Len(upd_threads) = 2
    /\ upd_threads[1].st = "done" /\ upd_threads[2].st = "run"
    /\ update_checking

\* C17 (as claimed): a frame shows the bare version only when the update
\* status applied by the loop is an unsupported one; it never shows it
\* while no status has been applied.
C17_BareVersionOnlyWhenUnsupported ==
    update_right = "v" => (update_status # NoStatus /\ ~update_status.supported)

\* C11: q or Q typed while a filter is being entered is appended to that
\* filter and the loop goes on; outside filter entry it ends the loop with
\* the quit result at once
C11_QuitsOnlyOutsideFilterInput ==
    [][\A ch \in {"q", "Q"} :
          Key(ch, NoMouse) =>
              IF input_mode = NoneValue
              THEN result' = <<"quit">> /\ ui_pc' = "ended"
              ELSE /\ result' = NoResult /\ ui_pc' = "top"
                   /\ input_mode' = input_mode
                   /\ IF input_mode = "ws"
                      THEN ws_filter' = Append(ws_filter, ch) /\ chat_filter' = chat_filter
                      ELSE chat_filter' = Append(chat_filter, ch) /\ ws_filter' = ws_filter]_vars

\* q was typed into a filter, and later q ended the loop
C11_Witness ==
    /\ result = <<"quit">>
    /\ ws_filter \in {<<"q">>, <<"Q">>}

\* C12: after every input event that changes the selected workspace the
\* chat selection and the chat scroll offset are 0
C12_WorkspaceChangeResetsChats ==
    [][(ui_pc = "getch" /\ ws_state'.selected # ws_state.selected)
           => chat_state' = [selected |-> 0, scroll |-> 0]]_vars

\* C13: Enter in the chat list signals a new chat exactly when the
\* selected row is the (New Agent) row, signals the resume of the selected
\* chat when the row is a chat, and changes nothing when the filtered list
\* is empty
C13_EnterOpensTheSelectedRow ==
    [][(Key("KEY_ENTER", NoMouse) /\ input_mode = NoneValue /\ focus = "chats") =>
           LET filtered == filter_items(chat_items, chat_filter)
               row == filtered[ls_clamp(chat_state, Len(filtered)).selected + 1]
           IN  IF filtered = <<>>
               THEN result' = NoResult /\ UNCHANGED navVars
               ELSE /\ (result' = <<"new", cur_ws>>) <=> (row.kind = "new_agent")
                    /\ (row.kind = "chat") => (result' = <<"resume", cur_ws, row.id>>)]_vars

\* C15: Ctrl+U raises UpdateRequested only when the applied update status
\* is supported and has an update available (and no filter is being
\* typed); in every other state it raises nothing and the state of the
\* TUI stays as it was
C15_CtrlUOnlyWhenUpdateAvailable ==
    [][Key("CTRL_U", NoMouse) =>
           IF input_mode = NoneValue /\ update_status.supported /\ update_status.update_available
           THEN result' = <<"update_requested">> /\ ui_pc' = "ended"
           ELSE /\ result' = NoResult /\ ui_pc' = "top"
                /\ UNCHANGED <<navVars, cacheVars, updateVars, loaderVars>>]_vars

\* Ctrl+U was pressed with an available update applied
C15_Witness ==
    /\ result = <<"update_requested">>
    /\ update_status = Available

\* C21: whenever the preview pane has the focus, last_list_focus is the
\* list pane that had the focus most recently (the list left for the
\* preview, unchanged while the preview keeps the focus), and Left from
\* the preview gives the focus to that pane
C21_LeftReturnsToLastList ==
    [][/\ (focus' = "preview") =>
              (last_list_focus' = IF focus = "preview" THEN last_list_focus ELSE focus)
       /\ (Key("KEY_LEFT", NoMouse) /\ focus = "preview" /\ input_mode = NoneValue) =>
              (focus' = last_list_focus /\ last_list_focus' = last_list_focus)]_vars

\* the preview has the focus after a click, and the chat list had it before
C21_Witness ==
    /\ focus = "preview" /\ last_list_focus = "chats"
    /\ ui_pc = "getch" /\ input_mode = NoneValue
    /\ last_click_target # NoTarget

\* C22: for every terminal size the rectangles compute_layout returns lie
\* inside the usable area, and every cell of the usable area lies in exactly
\* one pane (the two list rectangles of the 1-column mode are one pane);
\* the widths of the 3-column mode sum to max_x, the chat and preview
\* heights of the 2-column mode and the list and preview heights of the
\* 1-column mode sum to the usable height
C22_LayoutTilesTheScreen ==
    (args.op = "compute_layout" /\ ret # NoReturn) =>
        LET L == ret[1]
            usable_h == MaxOf(1, args.max_y - 1)
            panes == {L.workspaces, L.conversations, L.preview}
        IN  /\ \A r \in panes :
                   /\ r.x >= 0 /\ r.y >= 0 /\ r.w >= 0 /\ r.h >= 0
                   /\ r.x + r.w <= args.max_x
                   /\ r.y + r.h <= usable_h
            /\ \A y \in 0..(usable_h - 1), x \in 0..(args.max_x - 1) :
                   Cardinality({r \in panes : contains(r, y, x)}) = 1
            /\ L.mode = "3col" => L.workspaces.w + L.conversations.w + L.preview.w = args.max_x
            /\ L.mode = "2col" => L.conversations.h + L.preview.h = usable_h
            /\ L.mode = "1col" => L.workspaces.h + L.preview.h = usable_h

\* a 3-column layout whose three widths were all limited
C22_Witness ==
    /\ args.op = "compute_layout" /\ ret # NoReturn
    /\ ret[1].mode = "3col"
    /\ ret[1].workspaces.w = 40 /\ ret[1].conversations.w = 60 /\ ret[1].preview.w > 20

\* C23: after clamp(n) and ensure_visible(h, n), for n >= 1 and h >= 1, the
\* scroll is at most max(0, n - h) and the selected index lies in the
\* window [scroll, scroll + h)
C23_SelectionInsideWindow ==
    (args.op = "list_rows" /\ ret # NoReturn) =>
        LET st == ret[1]
        IN  /\ st.scroll >= 0
            /\ st.scroll <= MaxOf(0, args.n - args.h)
            /\ st.scroll <= st.selected
            /\ st.selected < st.scroll + args.h
            /\ st.selected < args.n

\* the selection was below the window and the scroll followed it
C23_Witness ==
    /\ args.op = "list_rows" /\ ret # NoReturn
    /\ args.st.scroll = 0 /\ args.st.selected > args.h
    /\ ret[1].scroll > 0 /\ ret[1].selected = args.st.selected

C25_NewAgentRowFirst ==
    (args.op = "chat_list" /\ ret # NoReturn) =>
        /\ ret[1] # <<>>
        /\ ret[1][1] = NEW_AGENT_ITEM

\* a filter that hides every loaded chat leaves the (New Agent) row
C25_Witness ==
    /\ args.op = "chat_list" /\ ret # NoReturn
    /\ args.chats # <<>> /\ args.chat_filter = <<"q">>
    /\ ret[1] = <<NEW_AGENT_ITEM>>

\* the pairs handed to _append with every pair dropped that equals the
\* pair accepted just before it
RECURSIVE AdjacentDedup(_, _)
AdjacentDedup(out, pairs) ==
    IF pairs = <<>> THEN out
    ELSE IF out # <<>> /\ out[Len(out)] = Head(pairs) THEN AdjacentDedup(out, Tail(pairs))
    ELSE AdjacentDedup(Append(out, Head(pairs)), Tail(pairs))

\* C26: a (role, text) pair is dropped as a duplicate only when it equals
\* the pair accepted immediately before it, so an unbounded extraction
\* returns the scanned pairs less the adjacent repetitions
C26_OnlyAdjacentDuplicatesDropped ==
    (args.op = "extract_messages" /\ ret # NoReturn
        /\ args.max_messages = <<>> /\ args.max_blobs = <<>>) =>
        ret[1] = AdjacentDedup(<<>>, Flatten(args.store))

\* C27: extract_initial_messages(k) returns the first k entries, and
\* extract_recent_messages(k) without a blob limit the last k entries, of
\* the sequence an unbounded extraction of the same store returns
C27_BoundedIsSliceOfUnbounded ==
    (args.op = "extract_messages" /\ ret # NoReturn
        /\ args.max_messages # <<>> /\ args.max_blobs = <<>>) =>
        LET all == extract_messages(args.store, <<>>, <<>>, FALSE)
            k == args.max_messages[1]
        IN  ret[1] = IF k <= 0 THEN <<>>
                     ELSE IF args.from_start THEN FirstK(all, k)
                     ELSE LastK(all, k)

\* an initial extraction that stopped before the last blob
C27_Witness ==
    /\ args.op = "extract_messages" /\ ret # NoReturn
    /\ args.from_start /\ args.max_blobs = <<>> /\ args.max_messages = <<1>>
    /\ Len(extract_messages(args.store, <<>>, <<>>, FALSE)) > 1
    /\ ret[1] = <<<<"assistant", "b">>>>

\* what C28 says of the objects yielded so far: at most max_objects, each
\* inside the buffer, each starting after the end of the one before
YieldedInOrder ==
    args.op = "iter_embedded_json_objects" =>
        LET y == ret[1].yielded
        IN  /\ Len(y) <= args.max_objects
            /\ \A k \in 1..Len(y) : 0 <= y[k].start /\ y[k].start < y[k].end /\ y[k].end < Len(args.data)
            /\ \A k \in 1..(Len(y) - 1) : y[k].end < y[k + 1].start

\* C28: for every buffer the scan for embedded JSON objects ends, yields
\* at most max_objects objects, and yields them by strictly increasing
\* start offset with spans that do not overlap
C28_ScanEndsAndYieldsInOrder ==
    /\ []YieldedInOrder
    /\ (args.op = "iter_embedded_json_objects") => <>(ret[1].done)

\* the scan ended at the cap with objects left in the buffer
C28_Witness ==
    /\ args.op = "iter_embedded_json_objects"
    /\ ret[1].done /\ args.max_objects = 1
    /\ ret[1].yielded = <<[start |-> 1, end |-> 2]>>
    /\ Len(args.data) = 5 /\ args.data[4] = "{" /\ args.data[5] = "}"

\* the meta value that decides the result decodes to JSON that is not an
\* object
DecodesToNonObject(store) ==
    /\ store.file = "database"
    /\ \E n \in 1..Len(store.rows) :
           /\ IsStr(store.rows[n].value)
           /\ maybe_decode_hex_json(store.rows[n].value).t \in {"list", "int", "str"}
           /\ \/ store.rows[n].key = "0" /\ \A m \in 1..(n - 1) : store.rows[m].key # "0"
              \/ Len(store.rows) = 1

\* C29: read_chat_meta never raises; for a store with no file, no meta
\* table, a meta value that is not hex or not JSON, or one that decodes
\* to JSON that is not an object, the result is None
C29_ReadChatMetaNeverRaises ==
    (args.op = "read_chat_meta" /\ ret # NoReturn) =>
        /\ ret[1].kind # "raises"
        /\ (args.store.file # "database" \/ DecodesToNonObject(args.store)) => ret[1] = MetaNone

\* the paths a discovery knows for a bucket, from the candidates and from
\* the persisted map
CandidatePaths(d, h) ==
    {d.candidates[n].path : n \in {m \in 1..Len(d.candidates) :
        \E k \in 1..Len(d.candidates[m].hashes) : d.candidates[m].hashes[k] = h}}

PersistedPaths(d, h) == IF d.persisted[h] = <<>> THEN {} ELSE {d.persisted[h][1]}

\* the bucket has a known workspace directory and every one is gone
DirectoryDeleted(d, h) ==
    /\ h \in d.buckets
    /\ CandidatePaths(d, h) \cup PersistedPaths(d, h) # {}
    /\ (CandidatePaths(d, h) \cup PersistedPaths(d, h)) \cap d.dirs = {}

Returned(h) == \E n \in 1..Len(ret[1]) : ret[1][n].cwd_hash = h

ReturnedHashes == [n \in 1..Len(ret[1]) |-> ret[1][n].cwd_hash]

\* the buckets named by a candidate, in the order the candidates first
\* name them
RECURSIVE FirstSeen(_, _, _)
FirstSeen(hs, buckets, acc) ==
    IF hs = <<>> THEN acc
    ELSE FirstSeen(Tail(hs), buckets,
                   IF Head(hs) \in buckets /\ \A n \in 1..Len(acc) : acc[n] # Head(hs)
                   THEN Append(acc, Head(hs)) ELSE acc)

RECURSIVE CandidateHashes(_)
CandidateHashes(cands) == IF cands = <<>> THEN <<>> ELSE Head(cands).hashes \o CandidateHashes(Tail(cands))

\* C31: discover_agent_workspaces returns each bucket at most once: first
\* the buckets named by a candidate, in first-seen order, then the others
\* by descending mtime; with no filter asked for every bucket is returned
C31_CandidatesFirstThenByMtime ==
    (args.op = "discover_agent_workspaces" /\ ret # NoReturn) =>
        LET hs == ReturnedHashes
            first == FirstSeen(CandidateHashes(args.d.candidates), args.d.buckets, <<>>)
            Named(h) == \E n \in 1..Len(first) : first[n] = h
            Pos(h) == CHOOSE n \in 1..Len(first) : first[n] = h
        IN  /\ \A m, n \in 1..Len(hs) : m # n => hs[m] # hs[n]
            /\ \A n \in 1..Len(hs) : hs[n] \in args.d.buckets
            /\ \A m, n \in 1..Len(hs) : m < n =>
                   \/ Named(hs[m]) /\ Named(hs[n]) /\ Pos(hs[m]) < Pos(hs[n])
                   \/ Named(hs[m]) /\ ~Named(hs[n])
                   \/ ~Named(hs[m]) /\ ~Named(hs[n]) /\ args.d.mtime[hs[m]] >= args.d.mtime[hs[n]]
            /\ (args.d.include_unknown_hashes /\ ~args.d.exclude_missing_paths) =>
                   {hs[n] : n \in 1..Len(hs)} = args.d.buckets

\* two buckets no candidate names come back with the newer one first,
\* against the order in which the set yields them
C31_Witness ==
    /\ args.op = "discover_agent_workspaces" /\ ret # NoReturn
    /\ args.d.candidates = <<>>
    /\ args.d.order = <<"h1", "h2">>
    /\ args.d.mtime["h1"] < args.d.mtime["h2"]
    /\ ReturnedHashes = <<"h2", "h1">>

IndexOfFile(f) == CHOOSE n \in 1..Len(BundleFiles) : BundleFiles[n] = f

\* C32: the second of two runs that write patches no file: every file the
\* first run patched is counted as already patched, and its content is
\* what the first run left
C32_SecondRunPatchesNothing ==
    (args.op = "patch_cursor_agent_models" /\ ~args.dry_run /\ Len(ret) = 2) =>
        /\ ret[2].rep.patched_files = <<>>
        /\ ret[2].rep.skipped_already_patched =
               ret[1].rep.skipped_already_patched + Len(ret[1].rep.patched_files)
        /\ \A k \in 1..Len(ret[1].rep.patched_files) :
               LET n == IndexOfFile(ret[1].rep.patched_files[k])
               IN  ret[2].vd.text[n] = ret[1].vd.text[n] /\ ret[1].vd.text[n].marker

\* both runs done, the first patched both bundles
C32_Witness ==
    /\ args.op = "patch_cursor_agent_models" /\ ~args.dry_run /\ Len(ret) = 2
    /\ ret[1].rep.patched_files = BundleFiles
    /\ ret[2].rep.skipped_already_patched = 2

\* C33: a dry run changes no bundle and creates no backup, and reports as
\* patched every file the run that writes would have patched
C33_DryRunWritesNothing ==
    (args.op = "patch_cursor_agent_models" /\ args.dry_run /\ Len(ret) >= 1) =>
        /\ ret[1].vd = args.versions_dir
        /\ LET real == patch_cursor_agent_models(args.versions_dir, FALSE).rep.patched_files
               dry == ret[1].rep.patched_files
           IN  \A k \in 1..Len(real) : \E m \in 1..Len(dry) : dry[m] = real[k]

\* a dry run over a patchable bundle with no backup yet
C33_Witness ==
    /\ args.op = "patch_cursor_agent_models" /\ args.dry_run /\ Len(ret) = 1
    /\ args.versions_dir.bak[1] = NoBackup /\ args.versions_dir.mode[1].backup
    /\ args.versions_dir.mode[1].write = "ok"
    /\ ret[1].rep.patched_files = <<BundleFiles[1]>>

\* C34: the title cache is written only in a frame where a chat with a
\* generic name gets a title derived from its history that is not
\* generic; a frame whose chat already has another name, or in which no
\* title was derived, writes nothing
C34_CacheWrittenOnlyForDerivedTitle ==
    (args.op = "select_chat_titles" /\ Len(ret) = 2 /\ ret[2].title_cache # ret[1].title_cache) =>
        /\ is_generic_chat_name(ret[1].chat_cache.name)
        /\ args.chat.latest_root_blob_id /\ args.role = "history" /\ args.text # <<>>
        /\ derive_title_from_history(args.text[1]) = <<ret[2].chat_cache.name>>
        /\ ~is_generic_chat_name(ret[2].chat_cache.name)

\* C35: a chat with a generic name for which the cache loaded at startup
\* holds a title is shown under that title once its chat list is loaded
C35_CachedTitleShownOnLoad ==
    (args.op = "select_chat_titles" /\ Len(ret) >= 1
        /\ is_generic_chat_name(args.chat.name)
        /\ args.title_cache.loaded /\ args.title_cache.title # <<>>) =>
        ret[1].label = args.title_cache.title[1]

\* C36: a call of _hydrate_generic_titles calls get_preview for at most
\* max_items chats and for no chat whose id is in the done set, and from
\* a start index in 0..len(chats) returns an index between the start and
\* len(chats)
C36_HydrateIsBounded ==
    (args.op = "hydrate_generic_titles" /\ ret # NoReturn) =>
        /\ Len(ret[1].calls) <= MaxOf(0, args.max_items)
        /\ ret[1].processed = Len(ret[1].calls)
        /\ \A k \in 1..Len(ret[1].calls) :
               /\ ~ret[1].calls[k].done
               /\ ret[1].calls[k].chat_id \notin args.done_ids
               /\ \A m \in 1..(k - 1) : ret[1].calls[m].chat_id # ret[1].calls[k].chat_id
        /\ (args.start_idx \in 0..Len(args.chats)) =>
               (args.start_idx <= ret[1].i /\ ret[1].i <= Len(args.chats))

\* a list holding the same chat twice: get_preview is called once for it
\* and the second entry is passed over
C36_Witness ==
    /\ args.op = "hydrate_generic_titles" /\ ret # NoReturn
    /\ Len(args.chats) = 2 /\ args.chats[1] = args.chats[2]
    /\ args.start_idx = 0 /\ args.max_items = 2
    /\ Len(ret[1].calls) = 1 /\ ret[1].i = 2

\* C37: Enter or a double click with the 'Loading chats' row or an error
\* row selected in the chat list does not signal a new chat: whenever the
\* handler returns the new-chat signal, the row it selected is the
\* (New Agent) row
C37_PlaceholderRowStartsNoChat ==
    [][(ui_pc = "getch" /\ result' # NoResult /\ result'[1] = "new") =>
           LET filtered == filter_items(chat_items, chat_filter')
           IN  filtered[chat_state'.selected + 1].kind = "new_agent"]_vars

\* C38: while a non-empty workspace filter is active, the workspace whose
\* chats the frame lists and previews, and which Enter returns, is the
\* workspace on the highlighted row of the workspaces pane as drawn
C38_ListedWorkspaceIsHighlighted ==
    LET shown == filter_items(ws_items, ws_filter)
        list_mode == IF focus = "preview" THEN last_list_focus ELSE focus
    IN  (/\ ui_pc \in {"wait", "getch", "ended"}
         /\ layout # NoLayout
         /\ layout.mode # "1col" \/ list_mode = "workspaces"
         /\ ws_filter # <<>>
         /\ shown # <<>>) =>
            /\ ws_state.selected < Len(shown)
            /\ cur_ws = shown[ws_state.selected + 1].id
            /\ (result # NoResult /\ result[1] \in {"new", "resume"}) =>
                   result[2] = shown[ws_state.selected + 1].id

\* C39 as stated: after a process was killed while it held the install
\* lock, a later install or upgrade acquires the lock without the lock
\* directory being removed by hand (a run in which it is removed by hand
\* is not the claim's case and satisfies the formula)
C39_LockAcquiredAfterKill ==
    (lock_dir = KilledOwner) ~> (lock_dir \in Procs \/ lock_dir = NoOwner)

\* C39 amended: the lock directory a killed process left behind stays until
\* it is removed by hand, and every install or upgrade that reaches the
\* lock while it is there raises 'already in progress' and writes nothing
\* but the install root
C39_KilledLockBlocksInstalls ==
    [][(lock_dir = KilledOwner) =>
           /\ lock_dir' = KilledOwner \/ (lock_dir' = NoOwner /\ UNCHANGED callVars)
           /\ \A p \in Procs :
                  (pc[p] = "lock" /\ pc'[p] # "lock") =>
                      /\ pc'[p] = "raised"
                      /\ err'[p] = [kind |-> "lock_busy", path |-> LockDir]
                      /\ wrote'[p] \subseteq {"root"}
                      /\ UNCHANGED <<versions, tmp_dir, symlink>>]_vars

\* an install has just been refused because of the lock directory of a
\* killed process, with a version installed before the kill
C39_Witness ==
    /\ lock_dir = KilledOwner
    /\ \E p \in Procs : pc[p] = "raised" /\ err[p] = [kind |-> "lock_busy", path |-> LockDir]
    /\ \E t \in Tags : versions[t] # 0

\* the requests whose key is in a loading set of the render loop
LoadingKeys ==
    {<<"chats", k>> : k \in chat_loading}
        \cup {<<"preview_snippet", k>> : k \in preview_snippet_loading}
        \cup {<<"preview_full", k>> : k \in preview_full_loading}

\* the request is in flight in the loader, or its result is on the queue
Undelivered(r) ==
    \/ r[1] = "chats" /\ r[2] \in chats_inflight
    \/ r[1] = "preview_snippet" /\ r[2] \in preview_snippet_inflight
    \/ r[1] = "preview_full" /\ r[2] \in preview_full_inflight
    \/ \E k \in 1..Len(q) :
           \/ r[1] = "chats" /\ q[k][1] \in {"chats_ok", "chats_err"} /\ q[k][2] = r[2]
           \/ r[1] = "preview_snippet" /\ q[k][1] \in {"preview_snippet_ok", "preview_snippet_err"}
                  /\ <<q[k][2], q[k][3]>> = r[2]
           \/ r[1] = "preview_full" /\ q[k][1] \in {"preview_full_ok", "preview_full_err"}
                  /\ q[k][2] = r[2]

\* the result of the request has been applied to the cache of the render loop
Applied(r) ==
    \/ r[1] = "chats" /\ r[2] \notin chat_loading /\ r[2] \in DOMAIN chat_cache
    \/ r[1] = "preview_snippet" /\ r[2] \notin preview_snippet_loading
           /\ r[2] \in DOMAIN preview_snippet_cache
    \/ r[1] = "preview_full" /\ r[2] \notin preview_full_loading /\ r[2] \in DOMAIN preview_full_cache

LoaderRequests ==
    {<<"chats", w>> : w \in Workspaces}
        \cup {<<"preview_snippet", <<c, m>>>> : c \in ChatIds, m \in SnippetSizes}
        \cup {<<"preview_full", c>> : c \in ChatIds}

\* C40: while a key is in a loading set its request is in flight or its
\* result is on the queue, so has_pending() is true and the input wait of
\* the render loop has the 80 ms timeout; and with no key pressed every key
\* put into a loading set leaves it with its result in the cache
C40_LoadingKeysAreDelivered ==
    /\ [](\A r \in LoadingKeys : Undelivered(r) /\ has_pending)
    /\ []((ui_pc = "getch" /\ (LoadingKeys # {} \/ q # <<>>)) => timeout = PollMs)
    /\ \A r \in LoaderRequests : (r \in LoadingKeys) ~> Applied(r)

\* the chats of w1 came in while the loop was polling, and the loop now
\* blocks on input with nothing loading
C40_Witness ==
    /\ ui_pc = "getch" /\ timeout = Block
    /\ "w1" \in DOMAIN chat_cache /\ chat_cache["w1"] # <<>>
    /\ LoadingKeys = {}

====
